---- MODULE Spec2Model ----
(***************************************************************************)
(* Model of the media pipeline of backend/server.py and backend/cli.py,    *)
(* of the language-model request loops of backend/ai_base_models.py and of *)
(* the transcription poll of backend/ai_jobs.py and                        *)
(* backend/transcription_models.py, of the normalizer of the replies, of   *)
(* the clip materialization of backend/ai_jobs.py and                      *)
(* backend/clip_generation_models.py with execute_ffmpeg_commands, of the  *)
(* segments the transcription adapters return and of the status query.    *)
(*                                                                         *)
(* A run is one execution of process_media (started by the /upload         *)
(* handler) or of cli.main.  Every stage operation is a call that is       *)
(* dispatched, executes outside the orchestrator (a worker thread for the  *)
(* server, the callee for the cli) and returns; the orchestrator's code    *)
(* between two dispatches is one step, as it holds no await.  Every upload *)
(* is assumed to carry a file name of its own, so the files of a run are   *)
(* keyed by the run.                                                       *)
(***************************************************************************)
EXTENDS Integers, Sequences, FiniteSets, TLC

\* Number of runs (upload requests and cli invocations) explored.
MaxRuns == 2

Runs == 1..MaxRuns

VARIABLES
    pc,                 \* per run: "idle", "queued", "running" (a stage operation is awaited), "done"
    kind,               \* per run: "none", "server" or "cli"
    cur,                \* per run: the stage operation dispatched last
    result,             \* per run: "none", then "ok" or the description of the failure that ended the run
    bound,              \* per run: the local output_folder of process_media is bound
    raised,             \* per run: the exception the run propagated to its caller
    events,             \* per run: <<"call", stage, "-">> and <<"ret", stage, outcome>>, in order
    writes,             \* per run: the values given to update_processing_status, in order
    processing_status,  \* server.py global
    zip_file_path,      \* server.py global: 0 is None, r the temporary archive of run r
    fs,                 \* the files that exist: <<r, name>>
    zipContent,         \* per run: the names stored in the run's archive
    pendingRemoval,     \* archives with a scheduled remove_temp_file task
    lastDownload,       \* answer of the last /download: -1 none yet, 0 not available, r served
    rq,                 \* one call of _make_anthropic_request / _make_openai_request
    poll,               \* one transcription: the job-creation request and the poll
    job,                \* the transcription job at the provider
    sel,                \* the last call of a capability factory, or the providers a run called
    norm,               \* the last call of the normalizer or of an operation that uses it
    cut,                \* one clip materialization and the execution of its commands
    seg,                \* the last call of get_transcription_result of an adapter or of ai_jobs
    obs,                \* the answer of the last GET /status
    ex,                 \* the last call of get_exporter
    two                 \* one pair of replies taken through the two clip paths

pipevars == <<pc, kind, cur, result, bound, raised, events, writes,
              processing_status, zip_file_path, fs, zipContent,
              pendingRemoval, lastDownload>>

vars == <<pipevars, rq, poll, job, sel, norm, cut, seg, obs, ex, two>>

----------------------------------------------------------------------------
(* Values *)

St(s, p, m) == [status |-> s, progress |-> p, message |-> m]

\* processing_status = None
NoStatus == St("None", 0, "")

Stages == {"upload_to_s3", "get_s3_presigned_url", "start_transcription",
           "get_transcription_result", "generate_content", "create_media_clips",
           "save_debug_info", "execute_ffmpeg_commands",
           "create_zip_of_processed_files"}

FolderFiles == {"folder", "transcription", "content", "debug", "clips"}

\* The description (str(e)) of the exception a failing stage operation raises.
StageError(s) ==
    IF s = "get_transcription_result" THEN "Transcription process failed."
    ELSE s \o " failed"

\* What a stage operation can hand back.  start_transcription returns the
\* provider's JSON body unchecked, so it can return a body without 'urls'.
StageOutcomes(s) ==
    {"ok", StageError(s)} \cup
    (IF s = "start_transcription" THEN {"ok_no_urls"} ELSE {})

IsOk(o) == o \in {"ok", "ok_no_urls"}

----------------------------------------------------------------------------
(* process_media and cli.main, stage by stage *)

\* StageAfter with clip planning called before summarization.
StageAfter_ClipsFirst(k, s) ==
    CASE s = "upload_to_s3" -> "get_s3_presigned_url"
      [] s = "get_s3_presigned_url" -> "start_transcription"
      [] s = "start_transcription" -> "get_transcription_result"
      [] s = "get_transcription_result" -> "create_media_clips"
      [] s = "create_media_clips" -> "generate_content"
      [] s = "generate_content" -> "save_debug_info"
      [] s = "save_debug_info" -> "execute_ffmpeg_commands"
      [] s = "execute_ffmpeg_commands" ->
            IF k = "server" THEN "create_zip_of_processed_files" ELSE "end"
      [] OTHER -> "end"

\* The stage operation called after stage s has returned; "end" after the last.
StageAfter(k, s) ==
    CASE s = "upload_to_s3" -> "get_s3_presigned_url"
      [] s = "get_s3_presigned_url" -> "start_transcription"
      [] s = "start_transcription" -> "get_transcription_result"
      [] s = "get_transcription_result" -> "generate_content"
      [] s = "generate_content" -> "create_media_clips"
      [] s = "create_media_clips" -> "save_debug_info"
      [] s = "save_debug_info" -> "execute_ffmpeg_commands"
      [] s = "execute_ffmpeg_commands" ->
            IF k = "server" THEN "create_zip_of_processed_files" ELSE "end"
      [] OTHER -> "end"

\* The status values process_media writes once stage s has returned.
StatusAfter(s) ==
    CASE s = "upload_to_s3" -> <<>>
      [] s = "get_s3_presigned_url" ->
            <<St("processing", 20, "Generating presigned URL")>>
      [] s = "start_transcription" ->
            <<St("processing", 30, "Starting transcription")>>
      [] s = "get_transcription_result" ->
            <<St("processing", 40, "Processing transcription")>>
      [] s = "generate_content" ->
            <<St("processing", 60, "Generating general transcription")>>
      [] s = "create_media_clips" ->
            <<St("processing", 80, "Creating media clips")>>
      [] s = "save_debug_info" ->
            <<St("processing", 90, "Saving debug information")>>
      [] s = "execute_ffmpeg_commands" ->
            <<St("processing", 95, "Executing FFmpeg commands")>>
      [] s = "create_zip_of_processed_files" ->
            <<St("processing", 98, "Creating download package"),
              St("completed", 100, "Process complete")>>
      [] OTHER -> <<>>

\* The status values process_media writes before its first await.
StatusAtStart ==
    <<St("processing", 0, "Starting transcription process"),
      St("processing", 10, "Uploading file to S3")>>

\* ErrorStatus with a fixed message in place of the exception's description.
ErrorStatus_Generic(d) == St("error", 0, "Error: processing failed")

\* ErrorStatus that keeps a progress of the run.
ErrorStatus_HalfWay(d) == St("error", 50, "Error: " \o d)

\* The except clause of process_media.
ErrorStatus(d) == St("error", 0, "Error: " \o d)

\* Outcomes of the orchestrator's own code between stage s returning with o
\* and the next dispatch: the subscript prediction['urls']['get'], and the
\* creation of the output folder and of the exported files.  After a failed
\* stage none of it runs.
ServerInline(s, o) ==
    CASE ~IsOk(o) -> {"ok"}
      [] s = "start_transcription" /\ o = "ok_no_urls" -> {"'urls'"}
      [] s = "get_transcription_result" ->
            {"ok", "makedirs failed", "transcription write failed"}
      [] s = "generate_content" -> {"ok", "content write failed"}
      [] OTHER -> {"ok"}

CliInline(s, o) ==
    CASE ~IsOk(o) -> {"ok"}
      [] s = "start_transcription" /\ o = "ok_no_urls" -> {"'urls'"}
      [] s = "generate_content" ->
            {"ok", "makedirs failed", "transcription write failed",
             "content write failed"}
      [] OTHER -> {"ok"}

\* The files the orchestrator's own code has created for run r when its
\* step after stage s ends with io.
ServerInlineFiles(r, s, io) ==
    CASE s = "get_transcription_result" /\ io = "ok" ->
            {<<r, "folder">>, <<r, "transcription">>}
      [] s = "get_transcription_result" /\ io = "transcription write failed" ->
            {<<r, "folder">>}
      [] s = "generate_content" /\ io = "ok" -> {<<r, "content">>}
      [] OTHER -> {}

CliInlineFiles(r, s, io) ==
    CASE s = "generate_content" /\ io = "ok" ->
            {<<r, "folder">>, <<r, "transcription">>, <<r, "content">>}
      [] s = "generate_content" /\ io = "content write failed" ->
            {<<r, "folder">>, <<r, "transcription">>}
      [] s = "generate_content" /\ io = "transcription write failed" ->
            {<<r, "folder">>}
      [] OTHER -> {}

\* output_folder is assigned after get_transcription_result has returned.
BindsFolder(s) == s = "get_transcription_result"

\* The files a stage operation creates when it succeeds.
StageFiles(r, s, files) ==
    CASE s = "save_debug_info" /\ <<r, "folder">> \in files -> {<<r, "debug">>}
      [] s = "execute_ffmpeg_commands" /\ <<r, "folder">> \in files ->
            {<<r, "clips">>}
      [] s = "create_zip_of_processed_files" -> {<<r, "zip">>}
      [] OTHER -> {}

\* create_zip_of_processed_files: the files under the output folder.
ZipOf(r, files) == {n \in FolderFiles \ {"folder"} : <<r, n>> \in files}

\* The finally clause of process_media reads output_folder: with the local
\* unbound the read raises UnboundLocalError.
CleanupRaises(b) == ~b

\* The finally clause of process_media: the media file goes first, then the
\* output folder when the read of output_folder succeeds.
FinallyFiles(r, files, b) ==
    LET noMedia == files \ {<<r, "media">>}
    IN IF CleanupRaises(b) THEN noMedia
       ELSE noMedia \ {<<r, n>> : n \in FolderFiles}

\* ReturnValue of a process_media that lacks its return statement.
ReturnValue_None(r, failed) == 0

\* What process_media returns: the archive on success, None after an error.
ReturnValue(r, failed) == IF failed THEN 0 ELSE r

\* process_and_set_zip_path: the assignment happens only when process_media
\* returns.
StoredZip(r, failed, b, old) ==
    IF CleanupRaises(b) THEN old ELSE ReturnValue(r, failed)

LastOf(seq, default) == IF Len(seq) = 0 THEN default ELSE seq[Len(seq)]

----------------------------------------------------------------------------
(* _make_anthropic_request and _make_openai_request *)

\* The default of the parameter retries.
DefaultRetries == 2

\* The largest value of retries explored.
MaxRetriesArg == 2

Providers == {"anthropic", "openai"}

\* What one exchange with the provider gives: a reply with text, a transport
\* failure (connection error, HTTP error status, body that is not JSON), a
\* body with an 'error' member, a body whose content list is empty.
Replies == {"text", "transport", "envelope", "empty_content"}

NoRequest ==
    [state |-> "idle", provider |-> "none", retries |-> 0, attempt |-> 0,
     sent |-> 0, log |-> <<>>, error |-> "none"]

\* AttemptResult with the test 'attempt <= retries' in place of
\* 'attempt < retries'.
AttemptResult_OffByOne(p, reply, attempt, retries) ==
    CASE reply = "text" -> "return"
      [] p = "anthropic" /\ reply = "empty_content" -> "IndexError"
      [] attempt <= retries -> "continue"
      [] p = "anthropic" /\ reply = "envelope" -> "Anthropic API error"
      [] p = "anthropic" -> "Failed to communicate with Anthropic API"
      [] OTHER -> "OpenAI API error"

\* One iteration of the for loop: "return", "continue", or the exception
\* that leaves the function.  _make_anthropic_request catches
\* requests.RequestException only, so the IndexError of [0] on an empty
\* content list leaves it at once; _make_openai_request catches Exception.
AttemptResult(p, reply, attempt, retries) ==
    CASE reply = "text" -> "return"
      [] p = "anthropic" /\ reply = "empty_content" -> "IndexError"
      [] attempt < retries -> "continue"
      [] p = "anthropic" /\ reply = "envelope" -> "Anthropic API error"
      [] p = "anthropic" -> "Failed to communicate with Anthropic API"
      [] OTHER -> "OpenAI API error"

----------------------------------------------------------------------------
(* The transcription job: job-creation request and poll *)

\* The number of status queries counted; the counter stays at this value
\* while the poll goes on.
MaxPolls == 3

\* ai_jobs is the pair of functions the pipeline imports; the other two are
\* the adapters of transcription_models.py.
PollVariants == {"ai_jobs", "whisperx", "incredibly-fast-whisper"}

\* The poll that process_media and cli.main call.
PipelinePoll == "ai_jobs"

JobStatuses == {"starting", "processing", "succeeded", "failed"}

\* The statuses that end the poll loop.
TerminalStatuses == {"succeeded", "failed"}

\* The 'error' member of the provider's status body; "absent" when it has none.
ProviderErrors == {"rate limited", "out of memory", "absent"}

NoPoll ==
    [state |-> "idle", variant |-> "none", tries |-> 0, queries |-> 0,
     last |-> "none", error |-> "none", value |-> "none"]

NoJob == [status |-> "none", error |-> "absent"]

\* result.get("error", "Unknown error")
ReportedError(e) == IF e = "absent" THEN "Unknown error" ELSE e

\* The message of the exception raised on status 'failed'.
FailedMessage(v, e) ==
    IF v = "ai_jobs" THEN "Transcription process failed."
    ELSE "Transcription process failed: " \o ReportedError(e)

\* PollBranch of a poll that gives up on a status that is not terminal.
PollBranch_GivesUp(st) ==
    IF st = "succeeded" THEN "return" ELSE "raise"

\* PollBranch without the branch for 'failed'.
PollBranch_IgnoresFailed(st) ==
    IF st = "succeeded" THEN "return" ELSE "sleep"

\* The if statement of the poll loop on the reported status.
PollBranch(st) ==
    CASE st = "succeeded" -> "return"
      [] st = "failed" -> "raise"
      [] OTHER -> "sleep"

Min(a, b) == IF a < b THEN a ELSE b

----------------------------------------------------------------------------
(* The capability factories and the configuration *)

\* Values of the four selection keys; "absent" is a configuration without
\* the key.  azure, parakeet and llama stand for names no factory knows.
TranscriptionNames == {"absent", "replicate", "local_whisper", "azure"}
ReplicateNames == {"absent", "whisperx", "incredibly-fast-whisper", "parakeet"}
SummarizationNames == {"absent", "anthropic", "openai", "llama"}
ClipGenerationNames == {"absent", "anthropic", "openai", "llama"}

\* replicate_model_versions is given as the set of its keys, and
\* local_whisper_model_path as whether it has a value.
Configs ==
    [transcription_model : TranscriptionNames,
     selected_replicate_model : ReplicateNames,
     replicate_model_versions : SUBSET (ReplicateNames \ {"absent"}),
     local_whisper_model_path : BOOLEAN,
     summarization_model : SummarizationNames,
     clip_generation_model : ClipGenerationNames]

\* config.get(key, default)
Get(v, default) == IF v = "absent" THEN default ELSE v

Returns(a) == [raised |-> FALSE, adapter |-> a, error |-> "none"]
Raises(e) == [raised |-> TRUE, adapter |-> "none", error |-> e]

get_transcription_model(cfg) ==
    LET model_type == Get(cfg.transcription_model, "replicate")
        selected == Get(cfg.selected_replicate_model, "whisperx")
    IN CASE model_type = "replicate" ->
              IF selected \notin cfg.replicate_model_versions
              THEN Raises("No model version found for selected Replicate model")
              ELSE IF selected = "incredibly-fast-whisper"
              THEN Returns("IncrediblyFastWhisperTranscriptionModel")
              ELSE IF selected = "whisperx"
              THEN Returns("WhisperXTranscriptionModel")
              ELSE Raises("Unknown Replicate model type")
         [] model_type = "local_whisper" ->
              IF ~cfg.local_whisper_model_path
              THEN Raises("local_whisper_model_path must be specified")
              ELSE Returns("LocalWhisperTranscriptionModel")
         [] OTHER -> Raises("Unknown transcription model")

get_summarization_model(cfg) ==
    LET model_type == Get(cfg.summarization_model, "anthropic")
    IN IF model_type = "anthropic" THEN Returns("AnthropicSummarizationModel")
       ELSE Raises("Unknown summarization model")

\* get_clip_generation_model with the default adapter in place of the raise.
get_clip_generation_model_Default(cfg) ==
    LET model_type == Get(cfg.clip_generation_model, "anthropic")
    IN IF model_type = "openai" THEN Returns("OpenAIClipGenerationModel")
       ELSE Returns("AnthropicClipGenerationModel")

get_clip_generation_model(cfg) ==
    LET model_type == Get(cfg.clip_generation_model, "anthropic")
    IN IF model_type = "anthropic" THEN Returns("AnthropicClipGenerationModel")
       ELSE IF model_type = "openai" THEN Returns("OpenAIClipGenerationModel")
       ELSE Raises("Unknown clip generation model")

\* The services no run has called.
NoProviders ==
    [transcription |-> "none", summarization |-> "none",
     clip_generation |-> "none"]

\* The services the stage operations of process_media and cli.main call:
\* ai_jobs.start_transcription posts to the Replicate endpoint, and
\* generate_content and create_media_clips post to the Anthropic endpoint.
\* None of them reads a selection key.
PipelineProviders(cfg) ==
    [transcription |-> "replicate", summarization |-> "anthropic",
     clip_generation |-> "anthropic"]

\* What GET /config lists under available_options.
AvailableOptions ==
    [transcription_models |-> {"replicate"},
     replicate_models |-> {"whisperx", "incredibly-fast-whisper"},
     summarization_models |-> {"anthropic", "openai"},
     clip_generation_models |-> {"anthropic", "openai"}]

NoSelection ==
    [op |-> "none", cfg |-> "none", res |-> Returns("none"), requests |-> 0,
     uploaded |-> FALSE, invoked |-> NoProviders, options |-> "none"]

----------------------------------------------------------------------------
(* Text, json.loads and json.dumps *)

\* A text is a sequence of characters, each a string of length one.  JSON
\* values are tagged tuples: <<"null">>, <<"bool", "true">>,
\* <<"num", digits>>, <<"str", characters>>, <<"list", values>> and
\* <<"dict", pairs>> with pairs of key characters and value, in insertion
\* order.  The digits of a number are its literal: an optional minus sign, an
\* integer part and an optional fraction; exponents, and the \b and \u
\* escapes of strings, are left out.

\* The characters with ord(char) < 32, other than the newline.
ControlCharacters == {"\t", "\r", "\f"}

\* The whitespace json.loads skips between tokens.
JsonWhitespace == {" ", "\n", "\t", "\r"}

Digits == {"0", "1", "2", "3", "4", "5", "6", "7", "8", "9"}

\* The character after the backslash of an escape, and what it stands for.
EscapeLetters == {"n", "t", "r", "f", "\"", "\\", "/"}

Unescape(c) ==
    CASE c = "n" -> "\n"
      [] c = "t" -> "\t"
      [] c = "r" -> "\r"
      [] c = "f" -> "\f"
      [] OTHER -> c

\* json.dumps of one character of a string.
Escape(c) ==
    CASE c = "\n" -> <<"\\", "n">>
      [] c = "\t" -> <<"\\", "t">>
      [] c = "\r" -> <<"\\", "r">>
      [] c = "\f" -> <<"\\", "f">>
      [] c = "\"" -> <<"\\", "\"">>
      [] c = "\\" -> <<"\\", "\\">>
      [] OTHER -> <<c>>

\* The character at position i, or the empty string outside the text.
At(s, i) == IF i >= 1 /\ i <= Len(s) THEN s[i] ELSE ""

HasPrefix(s, i, lit) ==
    /\ i >= 1
    /\ i + Len(lit) - 1 <= Len(s)
    /\ SubSeq(s, i, i + Len(lit) - 1) = lit

\* The first position from i on that holds no character of set.
SkipOver(s, i, set) ==
    CHOOSE j \in i..(Len(s) + 1) :
        /\ At(s, j) \notin set
        /\ \A k \in i..(j - 1) : s[k] \in set

SkipWhitespace(s, i) == SkipOver(s, i, JsonWhitespace)

Fail == [ok |-> FALSE, val |-> <<"none">>, pos |-> 0]
Ok(v, p) == [ok |-> TRUE, val |-> v, pos |-> p]

\* dict[key] = value
DictSet(pairs, key, value) ==
    IF \E n \in 1..Len(pairs) : pairs[n][1] = key
    THEN [n \in 1..Len(pairs) |->
             IF pairs[n][1] = key THEN <<key, value>> ELSE pairs[n]]
    ELSE Append(pairs, <<key, value>>)

HasKey(pairs, key) == \E n \in 1..Len(pairs) : pairs[n][1] = key

DictGet(pairs, key) ==
    pairs[CHOOSE n \in 1..Len(pairs) : pairs[n][1] = key][2]

RECURSIVE ScanString(_, _, _)
\* The body of a string literal from position i, after its opening quote.
\* A raw control character, newline included, is refused (strict mode).
ScanString(s, i, acc) ==
    IF i > Len(s) THEN Fail
    ELSE IF s[i] = "\"" THEN Ok(<<"str", acc>>, i + 1)
    ELSE IF s[i] = "\\"
    THEN IF At(s, i + 1) \in EscapeLetters
         THEN ScanString(s, i + 2, Append(acc, Unescape(s[i + 1])))
         ELSE Fail
    ELSE IF s[i] \in ControlCharacters \cup {"\n"} THEN Fail
    ELSE ScanString(s, i + 1, Append(acc, s[i]))

\* A number literal at position i: an optional minus sign, then 0 or a run
\* of digits not led by 0, then an optional fraction.
ScanNumber(s, i) ==
    LET a == IF s[i] = "-" THEN i + 1 ELSE i
    IN IF At(s, a) \notin Digits THEN Fail
       ELSE LET b == IF s[a] = "0" THEN a + 1 ELSE SkipOver(s, a, Digits)
                c == IF At(s, b) = "." /\ At(s, b + 1) \in Digits
                     THEN SkipOver(s, b + 1, Digits)
                     ELSE b
            IN Ok(<<"num", SubSeq(s, i, c - 1)>>, c)

RECURSIVE ParseValue(_, _)
RECURSIVE ParseElements(_, _, _)
RECURSIVE ParseMembers(_, _, _)

\* The JSON value that starts at position i.
ParseValue(s, i) ==
    CASE At(s, i) = "\"" -> ScanString(s, i + 1, <<>>)
      [] At(s, i) = "{" ->
           LET j == SkipWhitespace(s, i + 1)
           IN IF At(s, j) = "}" THEN Ok(<<"dict", <<>>>>, j + 1)
              ELSE ParseMembers(s, j, <<>>)
      [] At(s, i) = "[" ->
           LET j == SkipWhitespace(s, i + 1)
           IN IF At(s, j) = "]" THEN Ok(<<"list", <<>>>>, j + 1)
              ELSE ParseElements(s, j, <<>>)
      [] At(s, i) \in Digits \cup {"-"} -> ScanNumber(s, i)
      [] HasPrefix(s, i, <<"t", "r", "u", "e">>) -> Ok(<<"bool", "true">>, i + 4)
      [] HasPrefix(s, i, <<"f", "a", "l", "s", "e">>) -> Ok(<<"bool", "false">>, i + 5)
      [] HasPrefix(s, i, <<"n", "u", "l", "l">>) -> Ok(<<"null">>, i + 4)
      [] OTHER -> Fail

\* The elements of an array from position i, the start of an element.
ParseElements(s, i, acc) ==
    LET v == ParseValue(s, i)
    IN IF ~v.ok THEN Fail
       ELSE LET j == SkipWhitespace(s, v.pos)
            IN IF At(s, j) = "]" THEN Ok(<<"list", Append(acc, v.val)>>, j + 1)
               ELSE IF At(s, j) = ","
               THEN ParseElements(s, SkipWhitespace(s, j + 1), Append(acc, v.val))
               ELSE Fail

\* The members of an object from position i, where a key must start.
ParseMembers(s, i, acc) ==
    IF At(s, i) # "\"" THEN Fail
    ELSE LET k == ScanString(s, i + 1, <<>>)
         IN IF ~k.ok THEN Fail
            ELSE LET j == SkipWhitespace(s, k.pos)
                 IN IF At(s, j) # ":" THEN Fail
                    ELSE LET v == ParseValue(s, SkipWhitespace(s, j + 1))
                         IN IF ~v.ok THEN Fail
                            ELSE LET e == SkipWhitespace(s, v.pos)
                                     acc2 == DictSet(acc, k.val[2], v.val)
                                 IN IF At(s, e) = "}"
                                    THEN Ok(<<"dict", acc2>>, e + 1)
                                    ELSE IF At(s, e) = ","
                                    THEN ParseMembers(s, SkipWhitespace(s, e + 1), acc2)
                                    ELSE Fail

\* json.loads: one value, whitespace around it, nothing else.
JsonLoads(s) ==
    LET v == ParseValue(s, SkipWhitespace(s, 1))
    IN IF v.ok /\ SkipWhitespace(s, v.pos) = Len(s) + 1 THEN v ELSE Fail

RECURSIVE Concat(_)
\* The concatenation of a sequence of texts.
Concat(parts) ==
    IF parts = <<>> THEN <<>> ELSE Head(parts) \o Concat(Tail(parts))

\* The layouts of json.dumps: separators (",", ":"), the default (", ", ": ")
\* and indent="\t".
Layouts == {"compact", "default", "tabbed"}

ItemSeparator(layout) ==
    CASE layout = "compact" -> <<",">>
      [] layout = "default" -> <<",", " ">>
      [] OTHER -> <<",", "\n", "\t">>

KeySeparator(layout) == IF layout = "compact" THEN <<":">> ELSE <<":", " ">>

Opening(layout) == IF layout = "tabbed" THEN <<"\n", "\t">> ELSE <<>>
Closing(layout) == IF layout = "tabbed" THEN <<"\n">> ELSE <<>>

Quoted(chars) ==
    <<"\"">> \o Concat([n \in 1..Len(chars) |-> Escape(chars[n])]) \o <<"\"">>

RECURSIVE Serialize(_, _)
\* json.dumps(v) in the given layout.
Serialize(v, layout) ==
    CASE v[1] = "null" -> <<"n", "u", "l", "l">>
      [] v[1] = "bool" ->
           IF v[2] = "true" THEN <<"t", "r", "u", "e">>
           ELSE <<"f", "a", "l", "s", "e">>
      [] v[1] = "num" -> v[2]
      [] v[1] = "str" -> Quoted(v[2])
      [] v[1] = "list" ->
           IF v[2] = <<>> THEN <<"[", "]">>
           ELSE <<"[">> \o Opening(layout)
                \o Concat([n \in 1..Len(v[2]) |->
                      (IF n = 1 THEN <<>> ELSE ItemSeparator(layout))
                      \o Serialize(v[2][n], layout)])
                \o Closing(layout) \o <<"]">>
      [] OTHER ->
           IF v[2] = <<>> THEN <<"{", "}">>
           ELSE <<"{">> \o Opening(layout)
                \o Concat([n \in 1..Len(v[2]) |->
                      (IF n = 1 THEN <<>> ELSE ItemSeparator(layout))
                      \o Quoted(v[2][n][1]) \o KeySeparator(layout)
                      \o Serialize(v[2][n][2], layout)])
                \o Closing(layout) \o <<"}">>

----------------------------------------------------------------------------
(* The normalizer and the operations that use it *)

\* "".join(char for char in response_text if ord(char) >= 32 or char == '\n')
\* with the test ord(char) > 32.
Clean_DropsSpace(text) ==
    SelectSeq(text, LAMBDA c : c \notin ControlCharacters \cup {" "})

\* "".join(char for char in response_text if ord(char) >= 32 or char == '\n')
Clean(text) == SelectSeq(text, LAMBDA c : c \notin ControlCharacters)

\* The characters str.strip() removes, and those \s matches.
PythonWhitespace == {" ", "\n", "\t", "\r", "\f"}

\* chars.strip(set)
Strip(chars, set) ==
    LET first == SkipOver(chars, 1, set)
    IN IF first > Len(chars) THEN <<>>
       ELSE LET last == CHOOSE j \in first..Len(chars) :
                           /\ chars[j] \notin set
                           /\ \A k \in (j + 1)..Len(chars) : chars[k] \in set
            IN SubSeq(chars, first, last)

\* The first position from i on that holds character c, or Len(s) + 1.
Find(s, i, c) ==
    CHOOSE j \in i..(Len(s) + 1) :
        /\ j = Len(s) + 1 \/ s[j] = c
        /\ \A k \in i..(j - 1) : s[k] # c

RECURSIVE Split(_, _)
\* chars.split(sep)
Split(chars, sep) ==
    LET j == Find(chars, 1, sep)
    IN IF j > Len(chars) THEN <<chars>>
       ELSE <<SubSeq(chars, 1, j - 1)>> \o Split(SubSeq(chars, j + 1, Len(chars)), sep)

\* re.findall(json_pattern, text) of _extract_json_from_text: the pattern
\* uses (?R), which is not a construct of the re module, so compiling it
\* raises re.error whatever the text is.
extract_json_from_text(text) ==
    [raised |-> TRUE, error |-> "re.error: unknown extension ?R",
     found |-> FALSE, text |-> <<>>]

TitleLiteral == <<"\"", "t", "i", "t", "l", "e", "\"", ":">>
KeywordsLiteral == <<"\"", "k", "e", "y", "w", "o", "r", "d", "s", "\"", ":">>

NoMatch == [ok |-> FALSE, groups |-> <<>>, pos |-> 0]

\* A match at position i of the fallback pattern of extract_topics,
\* \{\s*"title":\s*"([^"]+)",\s*"keywords":\s*\[((?:[^]]+))\]\s*\}
MatchTopicAt(s, i) ==
    IF At(s, i) # "{" THEN NoMatch
    ELSE LET a == SkipOver(s, i + 1, PythonWhitespace)
         IN IF ~HasPrefix(s, a, TitleLiteral) THEN NoMatch
            ELSE LET b == SkipOver(s, a + Len(TitleLiteral), PythonWhitespace)
                     c == Find(s, b + 1, "\"")
                 IN IF At(s, b) # "\"" \/ c = b + 1 \/ At(s, c + 1) # ","
                    THEN NoMatch
                    ELSE LET d == SkipOver(s, c + 2, PythonWhitespace)
                         IN IF ~HasPrefix(s, d, KeywordsLiteral) THEN NoMatch
                            ELSE LET e == SkipOver(s, d + Len(KeywordsLiteral),
                                                   PythonWhitespace)
                                     f == Find(s, e + 1, "]")
                                     g == SkipOver(s, f + 1, PythonWhitespace)
                                 IN IF \/ At(s, e) # "["
                                       \/ f = e + 1
                                       \/ f > Len(s)
                                       \/ At(s, g) # "}"
                                    THEN NoMatch
                                    ELSE [ok |-> TRUE,
                                          groups |-> <<SubSeq(s, b + 1, c - 1),
                                                       SubSeq(s, e + 1, f - 1)>>,
                                          pos |-> g + 1]

RECURSIVE FindTopicsFrom(_, _, _)
FindTopicsFrom(s, i, acc) ==
    IF i > Len(s) THEN acc
    ELSE LET m == MatchTopicAt(s, i)
         IN IF m.ok THEN FindTopicsFrom(s, m.pos, Append(acc, m.groups))
            ELSE FindTopicsFrom(s, i + 1, acc)

StartLiteral == <<"\"", "s", "t", "a", "r", "t", "\"", ":">>
EndLiteral == <<"\"", "e", "n", "d", "\"", ":">>

\* The end of a match of \d+(?:\.\d+)? at position i, or 0.
MatchDecimal(s, i) ==
    IF At(s, i) \notin Digits THEN 0
    ELSE LET b == SkipOver(s, i, Digits)
         IN IF At(s, b) = "." /\ At(s, b + 1) \in Digits
            THEN SkipOver(s, b + 1, Digits)
            ELSE b

\* A match at position i of the fallback pattern of generate_clips,
\* \{\s*"title":\s*"([^"]+)",\s*"start":\s*(\d+(?:\.\d+)?),\s*"end":\s*(\d+(?:\.\d+)?)\s*\}
MatchClipAt(s, i) ==
    IF At(s, i) # "{" THEN NoMatch
    ELSE LET a == SkipOver(s, i + 1, PythonWhitespace)
         IN IF ~HasPrefix(s, a, TitleLiteral) THEN NoMatch
            ELSE LET b == SkipOver(s, a + Len(TitleLiteral), PythonWhitespace)
                     c == Find(s, b + 1, "\"")
                 IN IF At(s, b) # "\"" \/ c = b + 1 \/ At(s, c + 1) # ","
                    THEN NoMatch
                    ELSE LET d == SkipOver(s, c + 2, PythonWhitespace)
                         IN IF ~HasPrefix(s, d, StartLiteral) THEN NoMatch
                            ELSE LET e == SkipOver(s, d + Len(StartLiteral),
                                                   PythonWhitespace)
                                     f == MatchDecimal(s, e)
                                 IN IF f = 0 \/ At(s, f) # "," THEN NoMatch
                                    ELSE LET g == SkipOver(s, f + 1, PythonWhitespace)
                                         IN IF ~HasPrefix(s, g, EndLiteral) THEN NoMatch
                                            ELSE LET h == SkipOver(s, g + Len(EndLiteral),
                                                                   PythonWhitespace)
                                                     k == MatchDecimal(s, h)
                                                     m == SkipOver(s, k, PythonWhitespace)
                                                 IN IF k = 0 \/ At(s, m) # "}"
                                                    THEN NoMatch
                                                    ELSE [ok |-> TRUE,
                                                          groups |-> <<SubSeq(s, b + 1, c - 1),
                                                                       SubSeq(s, e, f - 1),
                                                                       SubSeq(s, h, k - 1)>>,
                                                          pos |-> m + 1]

RECURSIVE FindClipsFrom(_, _, _)
FindClipsFrom(s, i, acc) ==
    IF i > Len(s) THEN acc
    ELSE LET m == MatchClipAt(s, i)
         IN IF m.ok THEN FindClipsFrom(s, m.pos, Append(acc, m.groups))
            ELSE FindClipsFrom(s, i + 1, acc)

\* The fallback patterns a caller passes: none, that of extract_topics or
\* that of generate_clips.
Patterns == {"none", "topic", "clip"}

\* re.findall(fallback_pattern, text)
FindAll(pattern, text) ==
    CASE pattern = "topic" -> FindTopicsFrom(text, 1, <<>>)
      [] pattern = "clip" -> FindClipsFrom(text, 1, <<>>)
      [] OTHER -> <<>>

Returned(by, value, tried) ==
    [outcome |-> "returned", by |-> by, value |-> value, error |-> "none",
     carried |-> <<>>, tried |-> tried]

\* carried is the text the message of the exception includes; no raise of
\* the normalizer or of its callers puts the response text in its message.
Raised(error, tried) ==
    [outcome |-> "raised", by |-> "none", value |-> <<"none">>,
     error |-> error, carried |-> <<>>, tried |-> tried]

ContentKey == <<"c", "o", "n", "t", "e", "n", "t">>
TextKey == <<"t", "e", "x", "t">>
SummaryKey == <<"s", "u", "m", "m", "a", "r", "y">>
TitleKey == <<"t", "i", "t", "l", "e">>
KeywordsKey == <<"k", "e", "y", "w", "o", "r", "d", "s">>

\* _parse_json_response.  The call of _extract_json_from_text stands outside
\* any try statement, so what it raises leaves the function.
parse_json_response(response_text, fallback_pattern) ==
    LET cleaned_text == Clean(response_text)
        direct == JsonLoads(cleaned_text)
        extracted == extract_json_from_text(cleaned_text)
        matches == FindAll(fallback_pattern, cleaned_text)
    IN IF direct.ok THEN Returned("direct", direct.val, <<"direct">>)
       ELSE IF extracted.raised
       THEN Raised(extracted.error, <<"direct", "extract">>)
       ELSE IF extracted.found /\ JsonLoads(extracted.text).ok
       THEN Returned("extract", JsonLoads(extracted.text).val,
                     <<"direct", "extract">>)
       ELSE IF fallback_pattern # "none" /\ matches # <<>>
       THEN Returned("pattern", <<"matches", matches>>,
                     <<"direct", "extract", "pattern">>)
       ELSE IF \A n \in 1..Len(cleaned_text) : cleaned_text[n] \notin {"{", "["}
       THEN Returned("wrap",
                     <<"dict", << <<ContentKey,
                                   <<"str", Strip(cleaned_text, PythonWhitespace)>> >> >> >>,
                     IF fallback_pattern = "none"
                     THEN <<"direct", "extract", "wrap">>
                     ELSE <<"direct", "extract", "pattern", "wrap">>)
       ELSE Raised("Failed to parse AI response",
                   IF fallback_pattern = "none"
                   THEN <<"direct", "extract", "wrap">>
                   ELSE <<"direct", "extract", "pattern", "wrap">>)

\* The Topic built from one match of the fallback pattern.
TopicOf(groups) ==
    LET parts == Split(groups[2], ",")
    IN <<"dict",
         << <<TitleKey, <<"str", groups[1]>> >>,
            <<KeywordsKey,
              <<"list", [n \in 1..Len(parts) |->
                           <<"str", Strip(parts[n], {" ", "\""})>>]>> >> >> >>

\* The value of Op at e, with e evaluated once.
Let(e, Op(_)) == CHOOSE r \in {Op(x) : x \in {e}} : TRUE

\* What extract_topics does with the outcome of the normalizer.
TopicsFrom(parsed) ==
    IF parsed.outcome = "raised" THEN parsed
    ELSE IF /\ parsed.value[1] = "list"
            /\ \A n \in 1..Len(parsed.value[2]) : parsed.value[2][n][1] = "dict"
    THEN Returned(parsed.by, parsed.value, parsed.tried)
    ELSE IF parsed.value[1] = "matches"
    THEN Returned(parsed.by,
                  <<"list", [n \in 1..Len(parsed.value[2]) |->
                               TopicOf(parsed.value[2][n])]>>,
                  parsed.tried)
    ELSE Raised("Failed to extract valid topics from the AI response",
                parsed.tried)

\* extract_topics, from the reply of the language model on.
extract_topics(response_text) ==
    Let(parse_json_response(response_text, "topic"), TopicsFrom)

\* SummaryKeys in the opposite order.
SummaryKeys_Reversed == <<SummaryKey, TextKey, ContentKey>>

\* The keys generate_summary looks for, in its order.
SummaryKeys == <<ContentKey, TextKey, SummaryKey>>

\* The first key of SummaryKeys that the object pairs has, or "none".
FirstKey(pairs) ==
    IF HasKey(pairs, SummaryKeys[1]) THEN SummaryKeys[1]
    ELSE IF HasKey(pairs, SummaryKeys[2]) THEN SummaryKeys[2]
    ELSE IF HasKey(pairs, SummaryKeys[3]) THEN SummaryKeys[3]
    ELSE "none"

\* SummaryFrom with a reply of any other shape used as the summary.
SummaryFrom_AnyShape(parsed) ==
    IF parsed.outcome = "raised" THEN parsed
    ELSE IF parsed.value[1] = "dict" /\ FirstKey(parsed.value[2]) # "none"
    THEN Returned(parsed.by,
                  DictGet(parsed.value[2], FirstKey(parsed.value[2])),
                  parsed.tried)
    ELSE Returned(parsed.by, parsed.value, parsed.tried)

\* What generate_summary does with the outcome of the normalizer.
SummaryFrom(parsed) ==
    IF parsed.outcome = "raised" THEN parsed
    ELSE IF parsed.value[1] = "dict" /\ FirstKey(parsed.value[2]) # "none"
    THEN Returned(parsed.by,
                  DictGet(parsed.value[2], FirstKey(parsed.value[2])),
                  parsed.tried)
    ELSE IF parsed.value[1] = "str"
    THEN Returned(parsed.by, parsed.value, parsed.tried)
    ELSE Raised("Failed to extract summary from AI response", parsed.tried)

\* generate_summary, from the reply of the language model on.
generate_summary(response_text) ==
    Let(parse_json_response(response_text, "none"), SummaryFrom)

----------------------------------------------------------------------------
(* Inputs of the normalizer *)

\* The largest nesting depth of the JSON values serialized.
MaxDepth == 2

Atoms ==
    {<<"null">>, <<"bool", "true">>, <<"num", <<"4", "2">>>>,
     <<"str", <<"a", " ", "b">>>>, <<"str", <<"q", "\"", "\n", "\t", "\\">>>>}

\* The second element of a list and the value of a second key.
SecondValues == {<<"num", <<"7">>>>, <<"str", <<"o", "k">>>>}

ObjectKeys == {ContentKey, SummaryKey}

RECURSIVE JsonValues(_)
\* The JSON values of nesting depth d at most: lists of up to two elements
\* and objects of up to two keys.
JsonValues(d) ==
    IF d = 0 THEN Atoms
    ELSE LET below == JsonValues(d - 1)
         IN below
            \cup {<<"list", <<>>>>, <<"dict", <<>>>>}
            \cup {<<"list", <<x>>>> : x \in below}
            \cup {<<"list", <<x, y>>>> : x \in below, y \in SecondValues}
            \cup {<<"dict", << <<k, x>> >> >> : k \in ObjectKeys, x \in below}
            \cup {<<"dict", << <<k[1], x>>, <<k[2], y>> >> >> :
                     k \in {kk \in ObjectKeys \X ObjectKeys : kk[1] # kk[2]},
                     x \in below, y \in SecondValues}

\* Objects with the key 'text'.
TextKeyValues ==
    {<<"dict", << <<SummaryKey, <<"str", <<"s">>>> >>,
                  <<TextKey, <<"str", <<"t">>>> >> >> >>,
     <<"dict", << <<TextKey, <<"num", <<"7">>>> >> >> >>,
     <<"dict", << << <<"a">>, <<"str", <<"s">>>> >> >> >>}

\* Replies without brace or bracket.
PlainTexts ==
    {<<"h", "e", "l", "l", "o", " ", "w", "o", "r", "l", "d">>,
     <<" ", " ", "M", "e", "e", "t", "i", "n", "g", " ", "n", "o", "t", "e", "s", ".", "\n">>,
     <<"a", "\t", "b">>,
     <<"4", "2">>,
     <<"t", "r", "u", "e">>,
     <<"\"", "q", "u", "o", "t", "e", "d", "\"">>,
     <<>>}

\* Replies with braces or brackets that hold no JSON.
GarbageTexts ==
    {<<"{", "o", "o", "p", "s">>,
     <<"}", "{">>,
     <<"[", "1", ",">>,
     <<"{", "\"", "a", "\"", ":">>,
     <<"{", "\"", "a", "\"", " ", "1", "}">>,
     <<"[", "}">>,
     <<"{", "'", "a", "'", ":", " ", "1", "}">>}

\* Replies to the topic-extraction request.
TopicReplies ==
    {<<"[", "{", "\"", "t", "i", "t", "l", "e", "\"", ":", " ", "\"", "A", " ", "b", "\"", ",", " ", "\"", "k", "e", "y", "w", "o", "r", "d", "s", "\"", ":", " ", "[", "\"", "k", "1", "\"", ",", " ", "\"", "k", "2", "\"", "]", "}", ",", " ", "{", "\"", "t", "i", "t", "l", "e", "\"", ":", "\"", "C", "\"", ",", "\"", "k", "e", "y", "w", "o", "r", "d", "s", "\"", ":", "[", " ", "x", " ", ",", "\"", "y", "\"", "]", "}", " ", "o", "o", "p", "s">>,
     <<"T", "o", "p", "i", "c", "s", ":", " ", "{", "\"", "t", "i", "t", "l", "e", "\"", ":", " ", "\"", "A", "\"", ",", " ", "\"", "k", "e", "y", "w", "o", "r", "d", "s", "\"", ":", " ", "[", "\"", "k", "\"", "]", "}", " ", "a", "n", "d", " ", "m", "o", "r", "e", " ", "{">>,
     <<"[", "{", "\"", "t", "i", "t", "l", "e", "\"", ":", " ", "\"", "A", "\"", ",", " ", "\"", "k", "e", "y", "w", "o", "r", "d", "s", "\"", ":", " ", "[", "\"", "k", "\"", "]", "}", ",", " ", "{", "\"", "t", "i", "t", "l", "e", "\"", ":", " ", "\"", "B", "\"", ",", " ", "\"", "k", "e", "y", "w", "o", "r", "d", "s", "\"", ":", " ", "[", "]", "}", "]">>,
     <<"[", "{", "\"", "t", "i", "t", "l", "e", "\"", ":", " ", "\"", "A", "\"", ",", " ", "\"", "k", "e", "y", "w", "o", "r", "d", "s", "\"", ":", " ", "[", "\"", "k", "\"", "]", "}", "]", " ", "d", "o", "n", "e">>}

\* Replies to the clip request.
ClipReplies ==
    {<<"C", "l", "i", "p", "s", ":", " ", "{", "\"", "t", "i", "t", "l", "e", "\"", ":", " ", "\"", "I", "n", "t", "r", "o", "\"", ",", " ", "\"", "s", "t", "a", "r", "t", "\"", ":", " ", "0", ",", " ", "\"", "e", "n", "d", "\"", ":", " ", "5", ".", "5", "0", "}", ",", " ", "{", "\"", "t", "i", "t", "l", "e", "\"", ":", "\"", "W", "r", "a", "p", " ", "u", "p", "\"", ",", "\"", "s", "t", "a", "r", "t", "\"", ":", "0", "0", "7", ".", "2", "5", ",", "\"", "e", "n", "d", "\"", ":", "1", "2", "}", " ", "{">>,
     <<"[", "{", "\"", "t", "i", "t", "l", "e", "\"", ":", " ", "\"", "I", "n", "t", "r", "o", "\"", ",", " ", "\"", "s", "t", "a", "r", "t", "\"", ":", " ", "0", ",", " ", "\"", "e", "n", "d", "\"", ":", " ", "5", ".", "5", "}", "]", " ", "d", "o", "n", "e">>}

ProseBefore == <<"H", "e", "r", "e", " ", "i", "s", " ", "y", "o", "u", "r", " ", "a", "n", "s", "w", "e", "r", ":", " ">>

ProseAfter == <<" ", "-", " ", "h", "o", "p", "e", " ", "t", "h", "a", "t", " ", "h", "e", "l", "p", "s", "!">>

\* An input is a text given as such (value is <<"none">> and the text is
\* before), or the serialization of value in layout, between before and
\* after.
RawSource(text) ==
    [before |-> text, value |-> <<"none">>, layout |-> "none", after |-> <<>>]

Sources ==
    {[before |-> <<>>, value |-> v, layout |-> l, after |-> <<>>] :
        v \in JsonValues(MaxDepth) \cup TextKeyValues, l \in Layouts}
    \cup {[before |-> ProseBefore, value |-> v, layout |-> "default",
           after |-> ProseAfter] :
             v \in {w \in JsonValues(MaxDepth) : w[1] = "dict" /\ w[2] # <<>>}}
    \cup {RawSource(text) : text \in PlainTexts \cup GarbageTexts \cup TopicReplies
                                  \cup ClipReplies}

TextOf(src) ==
    IF src.value = <<"none">> THEN src.before
    ELSE src.before \o Serialize(src.value, src.layout) \o src.after

StartKey == <<"s", "t", "a", "r", "t">>
EndKey == <<"e", "n", "d">>

\* A segment of a transcript.
Segment(start, end, text) ==
    <<"dict", << <<StartKey, <<"num", start>> >>,
                 <<EndKey, <<"num", end>> >>,
                 <<TextKey, <<"str", text>> >> >> >>

\* The transcripts given to generate_summary.
Transcripts ==
    LET hello == Segment(<<"0">>, <<"5">>, <<"h", "e", "l", "l", "o">>)
        world == Segment(<<"5">>, <<"1", "2">>, <<"w", "o", "r", "l", "d">>)
    IN {<<hello, world>>, <<world, hello>>, <<hello>>}

\* transcript and sent are those of a call of generate_summary: the
\* transcript it was given and the text of it that the request holds.
NoCall ==
    [op |-> "none", src |-> RawSource(<<>>), text |-> <<>>, pattern |-> "none",
     transcript |-> <<>>, sent |-> <<>>,
     res |-> Returned("none", <<"none">>, <<>>)]

----------------------------------------------------------------------------
(* Clip materialization: names, times and commands *)

Letters ==
    {"a", "b", "c", "d", "e", "f", "g", "h", "i", "j", "k", "l", "m",
     "n", "o", "p", "q", "r", "s", "t", "u", "v", "w", "x", "y", "z",
     "A", "B", "C", "D", "E", "F", "G", "H", "I", "J", "K", "L", "M",
     "N", "O", "P", "Q", "R", "S", "T", "U", "V", "W", "X", "Y", "Z"}

\* The characters of a title for which str.isalnum() holds.
Alnum == Letters \cup Digits

\* chars.rstrip()
RStrip(chars, set) ==
    IF \A n \in 1..Len(chars) : chars[n] \in set THEN <<>>
    ELSE SubSeq(chars, 1, CHOOSE j \in 1..Len(chars) :
                             /\ chars[j] \notin set
                             /\ \A k \in (j + 1)..Len(chars) : chars[k] \in set)

\* safe_title: the characters of the title that are alphanumeric, a space
\* or an underscore, stripped on the right, with every space replaced by an
\* underscore.
safe_title(title) ==
    LET kept == SelectSeq(title, LAMBDA c : c \in Alnum \cup {" ", "_"})
        stripped == RStrip(kept, PythonWhitespace)
    IN [n \in 1..Len(stripped) |->
           IF stripped[n] = " " THEN "_" ELSE stripped[n]]

\* The last position of character c in s, or 0.
LastIndex(s, c) ==
    IF \A n \in 1..Len(s) : s[n] # c THEN 0
    ELSE CHOOSE j \in 1..Len(s) :
            s[j] = c /\ \A k \in (j + 1)..Len(s) : s[k] # c

\* The position of the dot that starts the extension of path, or 0: the
\* last dot of the base name, unless the base name begins with it.
ExtensionDot(path) ==
    LET dot == LastIndex(path, ".")
    IN IF dot > LastIndex(path, "/") + 1 THEN dot ELSE 0

\* os.path.splitext(path)[1]
Extension(path) ==
    IF ExtensionDot(path) = 0 THEN <<>>
    ELSE SubSeq(path, ExtensionDot(path), Len(path))

\* output_folder of process_media and of cli.main: the directory of the
\* media file joined with the base name without its extension.
OutputFolder(media_file) ==
    IF ExtensionDot(media_file) = 0 THEN media_file
    ELSE SubSeq(media_file, 1, ExtensionDot(media_file) - 1)

\* os.path.join(dest_folder, f"{safe_title}{extension}")
OutputFile(dest_folder, title, source_file) ==
    dest_folder \o <<"/">> \o safe_title(title) \o Extension(source_file)

DigitOf(c) == CHOOSE n \in 0..9 : <<"0", "1", "2", "3", "4", "5", "6", "7", "8", "9">>[n + 1] = c

DigitChar(n) == <<"0", "1", "2", "3", "4", "5", "6", "7", "8", "9">>[n + 1]

RECURSIVE Natural(_)
\* The number a run of digits stands for.
Natural(digits) ==
    IF digits = <<>> THEN 0
    ELSE 10 * Natural(SubSeq(digits, 1, Len(digits) - 1))
         + DigitOf(digits[Len(digits)])

RECURSIVE Decimal(_)
\* The digits of a natural number.
Decimal(n) ==
    IF n < 10 THEN <<DigitChar(n)>>
    ELSE Decimal(n \div 10) \o <<DigitChar(n % 10)>>

\* Times are counted in thousandths of a second.  Millis is the time a
\* number literal stands for; digits of the fraction after the third are
\* dropped.
Millis(literal) ==
    LET negative == literal[1] = "-"
        body == IF negative THEN Tail(literal) ELSE literal
        dot == Find(body, 1, ".")
        whole == SubSeq(body, 1, dot - 1)
        fraction == SubSeq(SubSeq(body, dot + 1, Len(body)) \o <<"0", "0", "0">>, 1, 3)
        value == 1000 * Natural(whole) + Natural(fraction)
    IN IF negative THEN 0 - value ELSE value

\* buffer = 0.5
Buffer == 500

\* BufferedStart with the buffer added to the start.
BufferedStart_Added(start) == start + Buffer

\* max(0, start_time - buffer)
BufferedStart(start) == IF start - Buffer > 0 THEN start - Buffer ELSE 0

\* end_time += buffer
BufferedEnd(end) == end + Buffer

\* The hundredths that f"{t:.2f}" prints for a time t: the nearest, and the
\* even one when t is halfway (a time that is halfway is an odd multiple of
\* 0.005; those used here are multiples of 0.125, which a float holds
\* exactly).
Hundredths(t) ==
    LET size == IF t < 0 THEN 0 - t ELSE t
        q == size \div 10
        r == size % 10
    IN IF r > 5 \/ (r = 5 /\ q % 2 = 1) THEN q + 1 ELSE q

\* f"{t:.2f}"
Format2(t) ==
    LET h == Hundredths(t)
    IN (IF t < 0 THEN <<"-">> ELSE <<>>)
       \o Decimal(h \div 100) \o <<".">>
       \o <<DigitChar((h % 100) \div 10), DigitChar(h % 10)>>

\* The command of one clip:
\* "{ffmpeg_path}" -i "{source_file}" -ss {start_time:.2f} -to {end_time:.2f} -y -c copy "{output_file}"
CommandText(ffmpeg_path, source_file, start_time, end_time, output_file) ==
    <<"\"">> \o ffmpeg_path \o <<"\"", " ", "-", "i", " ", "\"">> \o source_file
    \o <<"\"", " ", "-", "s", "s", " ">> \o Format2(start_time)
    \o <<" ", "-", "t", "o", " ">> \o Format2(end_time)
    \o <<" ", "-", "y", " ", "-", "c", " ", "c", "o", "p", "y", " ", "\"">> \o output_file \o <<"\"">>

\* float(literal), as its literal: the integer part without leading zeros
\* and the fraction without trailing zeros, one digit of it at least.
FloatLiteral(literal) ==
    LET dot == Find(literal, 1, ".")
        whole == Decimal(Natural(SubSeq(literal, 1, dot - 1)))
        fraction == RStrip(SubSeq(literal, dot + 1, Len(literal)), {"0"})
    IN whole \o <<".">> \o (IF fraction = <<>> THEN <<"0">> ELSE fraction)

\* The clip built from one match of the fallback pattern.
ClipOf(groups) ==
    <<"dict", << <<TitleKey, <<"str", groups[1]>> >>,
                 <<StartKey, <<"num", FloatLiteral(groups[2])>> >>,
                 <<EndKey, <<"num", FloatLiteral(groups[3])>> >> >> >>

\* What generate_clips does with the outcome of the normalizer.
ClipsFrom(parsed) ==
    IF parsed.outcome = "raised" THEN parsed
    ELSE IF /\ parsed.value[1] = "list"
            /\ \A n \in 1..Len(parsed.value[2]) : parsed.value[2][n][1] = "dict"
    THEN Returned(parsed.by, parsed.value, parsed.tried)
    ELSE IF parsed.value[1] = "matches"
    THEN Returned(parsed.by,
                  <<"list", [n \in 1..Len(parsed.value[2]) |->
                               ClipOf(parsed.value[2][n])]>>,
                  parsed.tried)
    ELSE Raised("Failed to extract valid clips from the AI response",
                parsed.tried)

\* generate_clips, from the reply of the language model on.
generate_clips(response_text) ==
    Let(parse_json_response(response_text, "clip"), ClipsFrom)

\* create_media_clips: the topics of the first reply, by json.loads or else
\* by the topic pattern.
TopicsOfReply(topic_text) ==
    IF JsonLoads(topic_text).ok THEN JsonLoads(topic_text).val
    ELSE <<"list", [n \in 1..Len(FindAll("topic", topic_text)) |->
                      TopicOf(FindAll("topic", topic_text)[n])]>>

\* create_media_clips: the clips of the second reply, by json.loads or else
\* by the clip pattern.
ClipsOfReply(clip_text) ==
    IF JsonLoads(clip_text).ok THEN JsonLoads(clip_text).val
    ELSE <<"list", [n \in 1..Len(FindAll("clip", clip_text)) |->
                      ClipOf(FindAll("clip", clip_text)[n])]>>

\* not value
Falsy(value) ==
    \/ value[1] = "null"
    \/ value = <<"bool", "false">>
    \/ value[1] = "num" /\ Millis(value[2]) = 0
    \/ value[1] \in {"str", "list", "dict"} /\ value[2] = <<>>

\* The value can stand in start_time - buffer and end_time += buffer.
IsNumber(value) == value[1] \in {"num", "bool"}

\* The time a number stands for; True counts as 1 and False as 0.
TimeOf(value) ==
    IF value[1] = "num" THEN Millis(value[2])
    ELSE IF value[2] = "true" THEN 1000 ELSE 0

NoWindow ==
    [error |-> "none", title |-> <<>>, start |-> 0, end |-> 0,
     name |-> <<>>, start_time |-> 0, end_time |-> 0]

\* One pass of the loop of the materialization over clip: the exception it
\* raises, or the name and the buffered times it computes.  The subscripts
\* raise KeyError on a missing key and TypeError on a clip that is no
\* object, the iteration over the title raises TypeError unless the title
\* is a string (titles that are lists or objects are not among the replies
\* here), and the arithmetic raises TypeError on a time that is no number.
\* TypeError stands for any message of a TypeError.
Window(clip) ==
    IF clip[1] # "dict" THEN [NoWindow EXCEPT !.error = "TypeError"]
    ELSE IF ~HasKey(clip[2], TitleKey) THEN [NoWindow EXCEPT !.error = "'title'"]
    ELSE IF DictGet(clip[2], TitleKey)[1] # "str"
    THEN [NoWindow EXCEPT !.error = "TypeError"]
    ELSE IF ~HasKey(clip[2], StartKey) THEN [NoWindow EXCEPT !.error = "'start'"]
    ELSE IF ~HasKey(clip[2], EndKey) THEN [NoWindow EXCEPT !.error = "'end'"]
    ELSE IF ~IsNumber(DictGet(clip[2], StartKey))
    THEN [NoWindow EXCEPT !.error = "TypeError"]
    ELSE IF ~IsNumber(DictGet(clip[2], EndKey))
    THEN [NoWindow EXCEPT !.error = "TypeError"]
    ELSE [error |-> "none",
          title |-> DictGet(clip[2], TitleKey)[2],
          start |-> TimeOf(DictGet(clip[2], StartKey)),
          end |-> TimeOf(DictGet(clip[2], EndKey)),
          name |-> safe_title(DictGet(clip[2], TitleKey)[2]),
          start_time |-> BufferedStart(TimeOf(DictGet(clip[2], StartKey))),
          end_time |-> BufferedEnd(TimeOf(DictGet(clip[2], EndKey)))]

\* The environment of the ffmpeg lookup: what `which ffmpeg` prints (empty
\* when it fails) and which of the usual locations exist.
FfmpegLocations ==
    <<<<"/", "u", "s", "r", "/", "b", "i", "n", "/", "f", "f", "m", "p", "e", "g">>,
      <<"/", "u", "s", "r", "/", "l", "o", "c", "a", "l", "/", "b", "i", "n", "/", "f", "f", "m", "p", "e", "g">>,
      <<"/", "o", "p", "t", "/", "h", "o", "m", "e", "b", "r", "e", "w", "/", "b", "i", "n", "/", "f", "f", "m", "p", "e", "g">>>>

Environments ==
    {[which |-> FfmpegLocations[1], existing |-> {}],
     [which |-> <<>>, existing |-> {2, 3}],
     [which |-> <<>>, existing |-> {}]}

\* ffmpeg_path, or the empty text when the lookup raises.
FfmpegPath(env) ==
    IF env.which # <<>> THEN env.which
    ELSE IF env.existing = {} THEN <<>>
    ELSE FfmpegLocations[CHOOSE n \in env.existing :
                            \A m \in env.existing : n <= m]

\* Commands with the clips taken last to first.
Commands_Reversed(windows, ffmpeg_path, source_file, dest_folder) ==
    [n \in 1..Len(windows) |->
        CommandText(ffmpeg_path, source_file,
                    windows[Len(windows) + 1 - n].start_time,
                    windows[Len(windows) + 1 - n].end_time,
                    dest_folder \o <<"/">> \o windows[Len(windows) + 1 - n].name
                       \o Extension(source_file))]

\* ffmpeg_commands: one command per clip, in the order of the clips.
Commands(windows, ffmpeg_path, source_file, dest_folder) ==
    [n \in 1..Len(windows) |->
        CommandText(ffmpeg_path, source_file,
                    windows[n].start_time, windows[n].end_time,
                    dest_folder \o <<"/">> \o windows[n].name
                       \o Extension(source_file))]

RECURSIVE JoinWith(_, _)
\* sep.join(parts)
JoinWith(parts, sep) ==
    IF parts = <<>> THEN <<>>
    ELSE IF Len(parts) = 1 THEN parts[1]
    ELSE parts[1] \o sep \o JoinWith(Tail(parts), sep)

\* The first position from i on where the text sep begins, or Len(s) + 1.
FindText(s, i, sep) ==
    CHOOSE j \in i..(Len(s) + 1) :
        /\ j = Len(s) + 1 \/ HasPrefix(s, j, sep)
        /\ \A k \in i..(j - 1) : ~HasPrefix(s, k, sep)

RECURSIVE SplitOn(_, _)
\* chars.split(sep) for a separator of several characters
SplitOn(chars, sep) ==
    LET j == FindText(chars, 1, sep)
    IN IF j > Len(chars) THEN <<chars>>
       ELSE <<SubSeq(chars, 1, j - 1)>>
            \o SplitOn(SubSeq(chars, j + Len(sep), Len(chars)), sep)

Planned(topics, clips, windows, commands) ==
    [error |-> "none", topics |-> topics, clips |-> clips,
     windows |-> windows, commands |-> commands,
     batch |-> JoinWith(commands, <<" ", "&", "&", " ">>)]

NotPlanned(error, topics, clips) ==
    [error |-> error, topics |-> topics, clips |-> clips,
     windows |-> <<>>, commands |-> <<>>, batch |-> <<>>]

\* The loop over the clips that create_media_clips and create_clips share,
\* after the lookup of ffmpeg.  Iterating a reply that is an object or a
\* string hands keys or characters to the subscript clip['title'], and
\* iterating a number is not possible: TypeError either way.
Materialize(topics, clips, env, source_file, dest_folder) ==
    IF FfmpegPath(env) = <<>>
    THEN NotPlanned("ffmpeg not found. Please install ffmpeg and ensure it's in your PATH",
                    topics, clips)
    ELSE IF clips[1] # "list" THEN NotPlanned("TypeError", topics, clips)
    ELSE LET windows == [n \in 1..Len(clips[2]) |-> Window(clips[2][n])]
             bad == {n \in 1..Len(windows) : windows[n].error # "none"}
         IN IF bad # {}
            THEN NotPlanned(windows[CHOOSE n \in bad : \A m \in bad : n <= m].error,
                            topics, clips)
            ELSE Planned(topics, clips, windows,
                         Commands(windows, FfmpegPath(env), source_file, dest_folder))

\* create_media_clips, from the two replies of the language model on.
create_media_clips(topic_text, clip_text, env, source_file, dest_folder) ==
    IF Falsy(TopicsOfReply(topic_text))
    THEN NotPlanned("Failed to extract topics from the AI response",
                    TopicsOfReply(topic_text), <<"none">>)
    ELSE IF Falsy(ClipsOfReply(clip_text))
    THEN NotPlanned("Failed to extract clip information from the AI response",
                    TopicsOfReply(topic_text), ClipsOfReply(clip_text))
    ELSE Materialize(TopicsOfReply(topic_text), ClipsOfReply(clip_text),
                     env, source_file, dest_folder)

\* create_clips of the adapters: the topics it returns are the empty list.
create_clips(clips, env, source_file, dest_folder) ==
    Materialize(<<"list", <<>>>>, clips, env, source_file, dest_folder)

\* The commands execute_ffmpeg_commands runs: the pieces of the batch between
\* '&&', stripped; the server leaves out the empty ones.
Pieces(k, batch) ==
    LET parts == SplitOn(batch, <<"&", "&">>)
        stripped == [n \in 1..Len(parts) |-> Strip(parts[n], PythonWhitespace)]
    IN IF k = "server" THEN SelectSeq(stripped, LAMBDA c : c # <<>>)
       ELSE stripped

\* What subprocess.run(command, shell=True, check=True) can do: return, or
\* raise CalledProcessError.  The shell does nothing for an empty command
\* and refuses one with an unclosed quotation mark; whether ffmpeg succeeds
\* is up to the media.
RunOutcomes(command) ==
    IF command = <<>> THEN {"ok"}
    ELSE IF Len(SelectSeq(command, LAMBDA c : c = "\"")) % 2 = 1 THEN {"failed"}
    ELSE {"ok", "failed"}

\* AfterRun with check=False: a failed command is passed over.
AfterRun_Unchecked(outcome) == "continue"

\* What the loop of execute_ffmpeg_commands does once a command has ended.
AfterRun(outcome) == IF outcome = "ok" THEN "continue" ELSE "raise"

\* The largest number of clips in a reply.
MaxClips == 2

\* A clip as the language model writes it.
Clip(title, start, end) ==
    <<"dict", << <<TitleKey, <<"str", title>> >>,
                 <<StartKey, start>>,
                 <<EndKey, end>> >> >>

\* The elements of the replies to the clip request: windows inside the
\* media, a window that ends where the media ends, windows with times that
\* .2f rounds, a window that ends before it starts, a window that starts
\* before the media, a start given as a string, a clip without end and an
\* element that is no object.
ClipValues ==
    {Clip(<<"I", "n", "t", "r", "o">>, <<"num", <<"0">>>>, <<"num", <<"5">>>>),
     Clip(<<"-", " ", "I", "n", "t", "r", "o">>, <<"num", <<"5">>>>, <<"num", <<"1", "2">>>>),
     Clip(<<"Q", "&", "A", ":", " ", "p", "a", "r", "t", " ", "2", "!">>, <<"num", <<"1", ".", "1", "2", "5">>>>, <<"num", <<"2", ".", "3", "7", "5">>>>),
     Clip(<<"T", "_", "1", " ">>, <<"num", <<"0", ".", "2", "5">>>>, <<"num", <<"5", ".", "6", "7", "8">>>>),
     Clip(<<"W", "r", "a", "p", " ", "u", "p", ".">>, <<"num", <<"1", "0">>>>, <<"num", <<"5">>>>),
     Clip(<<"I", "n", "t", "r", "o">>, <<"num", <<"-", "2">>>>, <<"num", <<"3">>>>),
     Clip(<<"I", "n", "t", "r", "o">>, <<"str", <<"5">>>>, <<"num", <<"9">>>>),
     <<"dict", << <<TitleKey, <<"str", <<"I", "n", "t", "r", "o">>>> >>,
                  <<StartKey, <<"num", <<"0">>>> >> >> >>,
     <<"num", <<"7">>>>}

RECURSIVE ListsOf(_, _)
\* The sequences of 1 to n elements of set.
ListsOf(set, n) ==
    IF n = 0 THEN {}
    ELSE {<<x>> : x \in set}
         \cup {Append(l, x) : l \in ListsOf(set, n - 1), x \in set}

ClipLists == ListsOf(ClipValues, MaxClips)

\* Replies to the clip request that are not the serialization of a list of
\* ClipValues: clips in prose, an empty list, an object, a number and a
\* reply without clips.
OtherClipReplies ==
    {<<"H", "e", "r", "e", " ", "a", "r", "e", " ", "t", "h", "e", " ", "c", "l", "i", "p", "s", ":", " ", "{", "\"", "t", "i", "t", "l", "e", "\"", ":", " ", "\"", "I", "n", "t", "r", "o", "\"", ",", " ", "\"", "s", "t", "a", "r", "t", "\"", ":", " ", "0", ",", " ", "\"", "e", "n", "d", "\"", ":", " ", "5", ".", "5", "0", "}", ",", " ", "{", "\"", "t", "i", "t", "l", "e", "\"", ":", "\"", "W", "r", "a", "p", " ", "u", "p", "\"", ",", "\"", "s", "t", "a", "r", "t", "\"", ":", "0", "0", "7", ".", "2", "5", ",", "\"", "e", "n", "d", "\"", ":", "1", "2", "}">>,
     <<"[", "]">>,
     <<"{", "\"", "c", "l", "i", "p", "s", "\"", ":", " ", "[", "]", "}">>,
     <<"7">>,
     <<"I", " ", "f", "o", "u", "n", "d", " ", "n", "o", " ", "c", "l", "i", "p", "s", ".">>}

\* Replies to the topic request of create_media_clips.
TopicTexts ==
    {<<"[", "{", "\"", "t", "i", "t", "l", "e", "\"", ":", " ", "\"", "I", "n", "t", "r", "o", "\"", ",", " ", "\"", "k", "e", "y", "w", "o", "r", "d", "s", "\"", ":", " ", "[", "\"", "a", "\"", "]", "}", "]">>,
     <<"T", "o", "p", "i", "c", "s", ":", " ", "{", "\"", "t", "i", "t", "l", "e", "\"", ":", " ", "\"", "A", "\"", ",", " ", "\"", "k", "e", "y", "w", "o", "r", "d", "s", "\"", ":", " ", "[", "\"", "k", "\"", "]", "}", " ", "a", "n", "d", " ", "m", "o", "r", "e", " ", "{">>,
     <<"{", "\"", "t", "o", "p", "i", "c", "s", "\"", ":", " ", "[", "]", "}">>,
     <<"[", "]">>,
     <<"S", "o", "r", "r", "y", ".">>}

\* The media files: the path and the duration in thousandths of a second.
MediaFiles ==
    {[path |-> <<"/", "t", "m", "p", "/", "t", "a", "l", "k", ".", "m", "p", "4">>, duration |-> 12000],
     [path |-> <<"/", "t", "m", "p", "/", "m", "y", " ", "t", "a", "l", "k", ".", "v", "2", ".", "m", "o", "v">>, duration |-> 12000],
     [path |-> <<"/", "t", "m", "p", "/", "a", "&", "&", "b", ".", "m", "p", "4">>, duration |-> 12000]}

ClipInput(topic_text, clip_text, env, media) ==
    [topic_text |-> topic_text, clip_text |-> clip_text, env |-> env,
     media |-> media]

\* The calls of create_media_clips: every list of clips on every media file,
\* and a list of two clips with every other reply, environment and file.
ClipInputs ==
    LET topics == <<"[", "{", "\"", "t", "i", "t", "l", "e", "\"", ":", " ", "\"", "I", "n", "t", "r", "o", "\"", ",", " ", "\"", "k", "e", "y", "w", "o", "r", "d", "s", "\"", ":", " ", "[", "\"", "a", "\"", "]", "}", "]">>
        clips == Serialize(<<"list", <<Clip(<<"I", "n", "t", "r", "o">>, <<"num", <<"0">>>>, <<"num", <<"5">>>>),
                                       Clip(<<"W", "r", "a", "p", " ", "u", "p", ".">>, <<"num", <<"5">>>>, <<"num", <<"9", ".", "5">>>>)>>>>,
                           "default")
        found == CHOOSE env \in Environments : env.which # <<>>
        talk == CHOOSE media \in MediaFiles : media.path = <<"/", "t", "m", "p", "/", "t", "a", "l", "k", ".", "m", "p", "4">>
    IN {ClipInput(topics, Serialize(<<"list", l>>, "default"), found, media) :
           l \in ClipLists, media \in MediaFiles}
       \cup {ClipInput(topics, text, found, talk) : text \in OtherClipReplies}
       \cup {ClipInput(text, clips, found, talk) : text \in TopicTexts}
       \cup {ClipInput(topics, clips, env, media) :
                env \in Environments, media \in MediaFiles}

\* The state of one clip materialization.  stage is the call the
\* orchestrator is in or is about to make, plan is what create_media_clips
\* or create_clips returned or raised, pieces are the commands
\* execute_ffmpeg_commands is to run, ran are the commands run so far with
\* their outcomes, log is the order of the calls made and raised is the
\* exception the cli ends with.
NoCut ==
    [stage |-> "none", kind |-> "none",
     in |-> ClipInput(<<>>, <<>>, [which |-> <<>>, existing |-> {}],
                      [path |-> <<>>, duration |-> 0]),
     plan |-> NotPlanned("none", <<"none">>, <<"none">>),
     pieces |-> <<>>, ran |-> <<>>, log |-> <<>>, raised |-> "none"]

\* The adapter path of the clips: extract_topics, then generate_clips, then
\* create_clips of the adapter, on the replies the legacy path is given.
\* The result has the topics of extract_topics, the clips of generate_clips
\* and the commands of create_clips.
AdapterPath(topic_text, clip_text, env, source_file, dest_folder) ==
    LET topics == extract_topics(topic_text)
        clips == generate_clips(clip_text)
    IN IF topics.outcome = "raised"
       THEN NotPlanned(topics.error, <<"none">>, <<"none">>)
       ELSE IF clips.outcome = "raised"
       THEN NotPlanned(clips.error, topics.value, <<"none">>)
       ELSE [create_clips(clips.value, env, source_file, dest_folder)
                EXCEPT !.topics = topics.value]

\* No pair of replies has been taken through the two paths.
NoPair ==
    [op |-> "none", in |-> NoCut.in,
     legacy |-> NotPlanned("none", <<"none">>, <<"none">>),
     adapter |-> NotPlanned("none", <<"none">>, <<"none">>)]

----------------------------------------------------------------------------
(* Transcription segments *)

SegmentsKey == <<"s", "e", "g", "m", "e", "n", "t", "s">>

\* The largest number of segments in the output of a transcription.
MaxSegments == 2

\* The string holds a decimal number that float() accepts (the strings of
\* the outputs here hold such a number without surrounding whitespace, or
\* letters).
IsDecimalText(chars) ==
    /\ chars # <<>>
    /\ \A n \in 1..Len(chars) : chars[n] \in Digits \cup {".", "-"}
    /\ chars[Len(chars)] \in Digits

\* float(literal) for a literal with a sign.
SignedFloat(literal) ==
    IF literal[1] = "-" THEN <<"-">> \o FloatLiteral(Tail(literal))
    ELSE FloatLiteral(literal)

\* float(value): the float, or the exception.
Float(value) ==
    CASE value[1] = "num" ->
            [error |-> "none", value |-> <<"num", SignedFloat(value[2])>>]
      [] value[1] = "bool" ->
            [error |-> "none",
             value |-> <<"num", IF value[2] = "true" THEN <<"1", ".", "0">> ELSE <<"0", ".", "0">>>>]
      [] value[1] = "str" /\ IsDecimalText(value[2]) ->
            [error |-> "none", value |-> <<"num", SignedFloat(value[2])>>]
      [] value[1] = "str" -> [error |-> "ValueError", value |-> <<"none">>]
      [] OTHER -> [error |-> "TypeError", value |-> <<"none">>]

\* dict.get(key, default)
GetOr(pairs, key, default) ==
    IF HasKey(pairs, key) THEN DictGet(pairs, key) ELSE default

\* One pass of the loop of IncrediblyFastWhisperTranscriptionModel.
\* get_transcription_result: the segment it appends, or the exception.
ConvertFast(segment) ==
    IF segment[1] # "dict"
    THEN [error |-> "AttributeError", value |-> <<"none">>]
    ELSE LET start == Float(GetOr(segment[2], StartKey, <<"num", <<"0">>>>))
             end == Float(GetOr(segment[2], EndKey, <<"num", <<"0">>>>))
             text == GetOr(segment[2], TextKey, <<"str", <<>>>>)
         IN IF start.error # "none" THEN start
            ELSE IF end.error # "none" THEN end
            ELSE IF text[1] # "str"
            THEN [error |-> "AttributeError", value |-> <<"none">>]
            ELSE [error |-> "none",
                  value |-> <<"dict",
                              << <<StartKey, start.value>>,
                                 <<EndKey, end.value>>,
                                 <<TextKey, <<"str", Strip(text[2], PythonWhitespace)>> >> >> >>]

\* One pass of the loop of LocalWhisperTranscriptionModel.
\* get_transcription_result.
ConvertLocal(segment) ==
    IF segment[1] # "dict"
    THEN [error |-> "TypeError", value |-> <<"none">>]
    ELSE IF \E key \in {StartKey, EndKey, TextKey} : ~HasKey(segment[2], key)
    THEN [error |-> "KeyError", value |-> <<"none">>]
    ELSE IF DictGet(segment[2], TextKey)[1] # "str"
    THEN [error |-> "AttributeError", value |-> <<"none">>]
    ELSE [error |-> "none",
          value |-> <<"dict",
                      << <<StartKey, DictGet(segment[2], StartKey)>>,
                         <<EndKey, DictGet(segment[2], EndKey)>>,
                         <<TextKey, <<"str", Strip(DictGet(segment[2], TextKey)[2],
                                                   PythonWhitespace)>> >> >> >>]

\* The segments a loop of conversions returns, or the exception of the
\* first conversion that raises, under the message of the except clause.
Converted(segments, Convert(_), message) ==
    LET passes == [n \in 1..Len(segments) |-> Convert(segments[n])]
        bad == {n \in 1..Len(passes) : passes[n].error # "none"}
    IN IF bad # {} THEN [outcome |-> "raised", value |-> <<"none">>, error |-> message]
       ELSE [outcome |-> "returned",
             value |-> <<"list", [n \in 1..Len(passes) |-> passes[n].value]>>,
             error |-> "none"]

\* get_transcription_result of adapter, from the output of the transcription
\* that has succeeded on: WhisperXTranscriptionModel and ai_jobs return
\* result["output"]["segments"], the two other adapters convert segment by
\* segment.
ResultOf(adapter, output) ==
    CASE adapter \in {"whisperx", "ai_jobs"} ->
            IF HasKey(output[2], SegmentsKey)
            THEN [outcome |-> "returned", value |-> DictGet(output[2], SegmentsKey),
                  error |-> "none"]
            ELSE [outcome |-> "raised", value |-> <<"none">>, error |-> "'segments'"]
      [] adapter = "incredibly-fast-whisper" ->
            IF ~HasKey(output[2], SegmentsKey)
            THEN [outcome |-> "returned", value |-> <<"list", <<>>>>, error |-> "none"]
            ELSE Converted(DictGet(output[2], SegmentsKey)[2], ConvertFast,
                           "Failed to parse transcription result")
      [] OTHER ->
            IF ~HasKey(output[2], SegmentsKey)
            THEN [outcome |-> "raised", value |-> <<"none">>,
                  error |-> "Local transcription failed"]
            ELSE Converted(DictGet(output[2], SegmentsKey)[2], ConvertLocal,
                           "Local transcription failed")

TranscriptionAdapters ==
    {"whisperx", "incredibly-fast-whisper", "local", "ai_jobs"}

\* A segment as a provider gives it.
RawSegment(start, end, text) ==
    <<"dict", << <<StartKey, start>>, <<EndKey, end>>, <<TextKey, text>> >> >>

\* The segments of the outputs: a canonical one, one whose text begins with
\* a space, one with whole-number times, one with times given as strings,
\* one that ends before it starts, one that starts before 0, one that has
\* a blank text and no times, one without text and one whose start is no
\* number.
RawSegments ==
    {RawSegment(<<"num", <<"0", ".", "0">>>>, <<"num", <<"2", ".", "5">>>>, <<"str", <<"h", "e", "l", "l", "o">>>>),
     RawSegment(<<"num", <<"2", ".", "5">>>>, <<"num", <<"4", ".", "0">>>>, <<"str", <<" ", "w", "o", "r", "l", "d">>>>),
     RawSegment(<<"num", <<"4">>>>, <<"num", <<"6">>>>, <<"str", <<"a", "g", "a", "i", "n">>>>),
     RawSegment(<<"str", <<"6", ".", "5">>>>, <<"str", <<"7", ".", "2", "5">>>>, <<"str", <<"l", "a", "t", "e", " ">>>>),
     RawSegment(<<"num", <<"3", ".", "0">>>>, <<"num", <<"1", ".", "0">>>>, <<"str", <<"b", "a", "c", "k">>>>),
     RawSegment(<<"num", <<"-", "1", ".", "0">>>>, <<"num", <<"1", ".", "0">>>>, <<"str", <<"e", "a", "r", "l", "y">>>>),
     <<"dict", << <<TextKey, <<"str", <<" ", " ">>>> >> >> >>,
     RawSegment(<<"num", <<"0", ".", "0">>>>, <<"num", <<"1", ".", "0">>>>, <<"null">>),
     RawSegment(<<"str", <<"s", "o", "o", "n">>>>, <<"num", <<"1", ".", "0">>>>, <<"str", <<"x">>>>)}

\* The outputs of a transcription that has succeeded: with up to
\* MaxSegments segments, and without the key 'segments'.
Outputs ==
    {<<"dict", << <<SegmentsKey, <<"list", l>> >> >> >> :
        l \in {<<>>} \cup ListsOf(RawSegments, MaxSegments)}
    \cup {<<"dict", <<>>>>}

NoSegments ==
    [adapter |-> "none", output |-> <<"none">>,
     res |-> [outcome |-> "none", value |-> <<"none">>, error |-> "none"]]

----------------------------------------------------------------------------
(* The status query *)

\* get_status that hands back the cell as it is.
get_status_NoDefault(cell) == cell

\* get_status: the idle default while processing_status is None, else the
\* object the cell holds.
get_status(cell) == IF cell = NoStatus THEN St("idle", 0, "") ELSE cell

\* No status query has been answered.
NoQuery == [asked |-> FALSE, value |-> NoStatus]

----------------------------------------------------------------------------
(* The exporters *)

UpperLetters == <<"A", "B", "C", "D", "E", "F", "G", "H", "I", "J", "K", "L", "M", "N", "O", "P", "Q", "R", "S", "T", "U", "V", "W", "X", "Y", "Z">>

LowerLetters == <<"a", "b", "c", "d", "e", "f", "g", "h", "i", "j", "k", "l", "m", "n", "o", "p", "q", "r", "s", "t", "u", "v", "w", "x", "y", "z">>

\* chars.lower()
Lower(chars) ==
    [n \in 1..Len(chars) |->
        IF \E i \in 1..26 : UpperLetters[i] = chars[n]
        THEN LowerLetters[CHOOSE i \in 1..26 : UpperLetters[i] = chars[n]]
        ELSE chars[n]]

\* chars.upper()
Upper(chars) ==
    [n \in 1..Len(chars) |->
        IF \E i \in 1..26 : LowerLetters[i] = chars[n]
        THEN UpperLetters[CHOOSE i \in 1..26 : LowerLetters[i] = chars[n]]
        ELSE chars[n]]

\* An argument of get_exporter: None, or a string.
NoFormat == [given |-> FALSE, text |-> <<>>]

Format(text) == [given |-> TRUE, text |-> text]

\* format_lower = (export_format or "markdown").strip().lower()
format_lower(export_format) ==
    Lower(Strip(IF ~export_format.given \/ export_format.text = <<>>
                THEN <<"m", "a", "r", "k", "d", "o", "w", "n">> ELSE export_format.text,
                PythonWhitespace))

\* get_extension of the three exporters.
get_extension(exporter) ==
    CASE exporter = "PDFExporter" -> <<".", "p", "d", "f">>
      [] exporter = "DocxExporter" -> <<".", "d", "o", "c", "x">>
      [] exporter = "MarkdownExporter" -> <<".", "m", "d">>
      [] OTHER -> <<>>

Exported(exporter) ==
    [raised |-> FALSE, error |-> "none", exporter |-> exporter]

\* get_exporter.  exporters.py imports FPDF and Document when it is loaded,
\* so neither is None in a process that can call get_exporter and the
\* constructors of the exporters do not raise ImportError.
get_exporter(export_format) ==
    CASE format_lower(export_format) = <<"p", "d", "f">> -> Exported("PDFExporter")
      [] format_lower(export_format) \in {<<"d", "o", "c", "x">>, <<"d", "o", "c">>} -> Exported("DocxExporter")
      [] format_lower(export_format) \in {<<"m", "a", "r", "k", "d", "o", "w", "n">>, <<"m", "d">>} ->
            Exported("MarkdownExporter")
      [] OTHER -> Exported("MarkdownExporter")

\* The names of formats asked for, known to get_exporter or not.
FormatNames ==
    {<<"p", "d", "f">>, <<"d", "o", "c", "x">>, <<"d", "o", "c">>, <<"m", "a", "r", "k", "d", "o", "w", "n">>, <<"m", "d">>, <<"h", "t", "m", "l">>, <<"t", "x", "t">>, <<"r", "t", "f">>,
     <<"p", " ", "d", "f">>}

\* The arguments of get_exporter: None, the empty string, and every name as
\* it is, in capitals or with a capital first letter, bare or with
\* whitespace around it.
ExportFormats ==
    {NoFormat, Format(<<>>), Format(<<" ">>)}
    \cup {Format(before \o spelt \o after) :
             before \in {<<>>, <<" ">>},
             after \in {<<>>, <<"\n">>},
             spelt \in UNION {{name, Upper(name),
                               Upper(SubSeq(name, 1, 1)) \o SubSeq(name, 2, Len(name))} :
                              name \in FormatNames}}

NoExport == [op |-> "none", format |-> NoFormat, res |-> Exported("none")]

----------------------------------------------------------------------------
(* Actions of the pipeline *)

Init ==
    /\ pc = [r \in Runs |-> "idle"]
    /\ kind = [r \in Runs |-> "none"]
    /\ cur = [r \in Runs |-> "none"]
    /\ result = [r \in Runs |-> "none"]
    /\ bound = [r \in Runs |-> FALSE]
    /\ raised = [r \in Runs |-> "none"]
    /\ events = [r \in Runs |-> <<>>]
    /\ writes = [r \in Runs |-> <<>>]
    /\ processing_status = NoStatus
    /\ zip_file_path = 0
    /\ fs = {}
    /\ zipContent = [r \in Runs |-> {}]
    /\ pendingRemoval = {}
    /\ lastDownload = -1
    /\ rq = NoRequest
    /\ poll = NoPoll
    /\ job = NoJob
    /\ sel = NoSelection
    /\ norm = NoCall
    /\ cut = NoCut
    /\ seg = NoSegments
    /\ obs = NoQuery
    /\ ex = NoExport
    /\ two = NoPair

\* Runs are numbered in the order they are started.
CanStart(r) == pc[r] = "idle" /\ \A q \in Runs : q < r => pc[q] # "idle"

\* POST /upload: store the file, write the status, queue the background task.
UploadFile(r) ==
    /\ CanStart(r)
    /\ pc' = [pc EXCEPT ![r] = "queued"]
    /\ kind' = [kind EXCEPT ![r] = "server"]
    /\ fs' = fs \cup {<<r, "media">>}
    /\ processing_status' = St("processing", 0, "Starting processing")
    /\ writes' = [writes EXCEPT ![r] = Append(@, processing_status')]
    /\ UNCHANGED <<cur, result, bound, raised, events, zip_file_path,
                   zipContent, pendingRemoval, lastDownload,
                   rq, poll, job, sel, norm, cut, seg, obs, ex, two>>

\* process_media up to its first await.
ProcessMediaStart(r) ==
    /\ pc[r] = "queued"
    /\ pc' = [pc EXCEPT ![r] = "running"]
    /\ cur' = [cur EXCEPT ![r] = "upload_to_s3"]
    /\ events' = [events EXCEPT ![r] = Append(@, <<"call", "upload_to_s3", "-">>)]
    /\ writes' = [writes EXCEPT ![r] = @ \o StatusAtStart]
    /\ processing_status' = LastOf(StatusAtStart, processing_status)
    /\ UNCHANGED <<kind, result, bound, raised, zip_file_path, fs, zipContent,
                   pendingRemoval, lastDownload,
                   rq, poll, job, sel, norm, cut, seg, obs, ex, two>>

\* cli.main up to its first stage call; the media file was chosen by the user.
CliMain(r) ==
    /\ CanStart(r)
    /\ pc' = [pc EXCEPT ![r] = "running"]
    /\ kind' = [kind EXCEPT ![r] = "cli"]
    /\ cur' = [cur EXCEPT ![r] = "upload_to_s3"]
    /\ fs' = fs \cup {<<r, "media">>}
    /\ events' = [events EXCEPT ![r] = Append(@, <<"call", "upload_to_s3", "-">>)]
    /\ UNCHANGED <<result, bound, raised, writes, processing_status,
                   zip_file_path, zipContent, pendingRemoval, lastDownload,
                   rq, poll, job, sel, norm, cut, seg, obs, ex, two>>

\* ServerLeave with the completion write placed after the try statement, so
\* that it also follows the except clause.
ServerLeave_CompletesAnyway(r, failed, d, ws, files, b, ev, zc) ==
    LET w == IF failed
             THEN ws \o <<ErrorStatus(d), St("completed", 100, "Process complete")>>
             ELSE ws
    IN /\ pc' = [pc EXCEPT ![r] = "done"]
       /\ result' = [result EXCEPT ![r] = IF failed THEN d ELSE "ok"]
       /\ bound' = [bound EXCEPT ![r] = b]
       /\ events' = [events EXCEPT ![r] = ev]
       /\ zipContent' = [zipContent EXCEPT ![r] = zc]
       /\ writes' = [writes EXCEPT ![r] = @ \o w]
       /\ processing_status' = LastOf(w, processing_status)
       /\ fs' = FinallyFiles(r, files, b)
       /\ raised' = [raised EXCEPT ![r] =
                        IF CleanupRaises(b) THEN "UnboundLocalError" ELSE @]
       /\ zip_file_path' = StoredZip(r, failed, b, zip_file_path)
       /\ UNCHANGED <<kind, cur, pendingRemoval, lastDownload,
                   rq, poll, job, sel, norm, cut, seg, obs, ex, two>>

\* process_media leaves through except and finally, or through return and
\* finally; process_and_set_zip_path then stores what it returned.
ServerLeave(r, failed, d, ws, files, b, ev, zc) ==
    LET w == IF failed THEN Append(ws, ErrorStatus(d)) ELSE ws
    IN /\ pc' = [pc EXCEPT ![r] = "done"]
       /\ result' = [result EXCEPT ![r] = IF failed THEN d ELSE "ok"]
       /\ bound' = [bound EXCEPT ![r] = b]
       /\ events' = [events EXCEPT ![r] = ev]
       /\ zipContent' = [zipContent EXCEPT ![r] = zc]
       /\ writes' = [writes EXCEPT ![r] = @ \o w]
       /\ processing_status' = LastOf(w, processing_status)
       /\ fs' = FinallyFiles(r, files, b)
       /\ raised' = [raised EXCEPT ![r] =
                        IF CleanupRaises(b) THEN "UnboundLocalError" ELSE @]
       /\ zip_file_path' = StoredZip(r, failed, b, zip_file_path)
       /\ UNCHANGED <<kind, cur, pendingRemoval, lastDownload,
                   rq, poll, job, sel, norm, cut, seg, obs, ex, two>>

\* The orchestrator goes on to the next stage operation.
Dispatch(r, next, ws, files, b, ev) ==
    /\ pc' = [pc EXCEPT ![r] = "running"]
    /\ cur' = [cur EXCEPT ![r] = next]
    /\ bound' = [bound EXCEPT ![r] = b]
    /\ events' = [events EXCEPT ![r] = Append(ev, <<"call", next, "-">>)]
    /\ writes' = [writes EXCEPT ![r] = @ \o ws]
    /\ processing_status' = LastOf(ws, processing_status)
    /\ fs' = files
    /\ UNCHANGED <<kind, result, raised, zip_file_path, zipContent,
                   pendingRemoval, lastDownload,
                   rq, poll, job, sel, norm, cut, seg, obs, ex, two>>

\* ServerResume with a failed stage operation called again.
ServerResume_Retry(r, o, io) ==
    /\ pc[r] = "running" /\ kind[r] = "server"
    /\ o \in StageOutcomes(cur[r])
    /\ io \in ServerInline(cur[r], o)
    /\ LET s == cur[r]
           ev == Append(events[r], <<"ret", s, o>>)
           made == IF IsOk(o) THEN fs \cup StageFiles(r, s, fs) ELSE fs
           zc == IF IsOk(o) /\ s = "create_zip_of_processed_files"
                 THEN ZipOf(r, fs) ELSE zipContent[r]
           ws == StatusAfter(s)
           b == bound[r] \/ BindsFolder(s)
           files == made \cup ServerInlineFiles(r, s, io)
           next == StageAfter("server", s)
       IN IF ~IsOk(o) THEN Dispatch(r, s, <<>>, made, bound[r], ev)
          ELSE IF io # "ok" THEN ServerLeave(r, TRUE, io, ws, files, b, ev, zc)
          ELSE IF next = "end" THEN ServerLeave(r, FALSE, "ok", ws, files, b, ev, zc)
          ELSE Dispatch(r, next, ws, files, b, ev)

\* The awaited stage operation finishes with outcome o and process_media
\* resumes, up to its next await or its end.  What the worker thread has done
\* is visible to nothing else before process_media resumes, so the two are one
\* step.
ServerResume(r, o, io) ==
    /\ pc[r] = "running" /\ kind[r] = "server"
    /\ o \in StageOutcomes(cur[r])
    /\ io \in ServerInline(cur[r], o)
    /\ LET s == cur[r]
           ev == Append(events[r], <<"ret", s, o>>)
           made == IF IsOk(o) THEN fs \cup StageFiles(r, s, fs) ELSE fs
           zc == IF IsOk(o) /\ s = "create_zip_of_processed_files"
                 THEN ZipOf(r, fs) ELSE zipContent[r]
           ws == StatusAfter(s)
           b == bound[r] \/ BindsFolder(s)
           files == made \cup ServerInlineFiles(r, s, io)
           next == StageAfter("server", s)
       IN IF ~IsOk(o) THEN ServerLeave(r, TRUE, o, <<>>, made, bound[r], ev, zc)
          ELSE IF io # "ok" THEN ServerLeave(r, TRUE, io, ws, files, b, ev, zc)
          ELSE IF next = "end" THEN ServerLeave(r, FALSE, "ok", ws, files, b, ev, zc)
          ELSE Dispatch(r, next, ws, files, b, ev)

\* cli.main logs and re-raises; it has no cleanup.
CliLeave(r, failed, d, files, ev) ==
    /\ pc' = [pc EXCEPT ![r] = "done"]
    /\ result' = [result EXCEPT ![r] = IF failed THEN d ELSE "ok"]
    /\ raised' = [raised EXCEPT ![r] = IF failed THEN d ELSE @]
    /\ events' = [events EXCEPT ![r] = ev]
    /\ fs' = files
    /\ UNCHANGED <<kind, cur, bound, writes, processing_status,
                   zip_file_path, zipContent, pendingRemoval, lastDownload,
                   rq, poll, job, sel, norm, cut, seg, obs, ex, two>>

\* The stage operation cli.main has called returns with outcome o and main
\* goes on to its next stage call or its end.
CliResume(r, o, io) ==
    /\ pc[r] = "running" /\ kind[r] = "cli"
    /\ o \in StageOutcomes(cur[r])
    /\ io \in CliInline(cur[r], o)
    /\ LET s == cur[r]
           ev == Append(events[r], <<"ret", s, o>>)
           made == IF IsOk(o) THEN fs \cup StageFiles(r, s, fs) ELSE fs
           files == made \cup CliInlineFiles(r, s, io)
           next == StageAfter("cli", s)
       IN IF ~IsOk(o) THEN CliLeave(r, TRUE, o, made, ev)
          ELSE IF io # "ok" THEN CliLeave(r, TRUE, io, files, ev)
          ELSE IF next = "end" THEN CliLeave(r, FALSE, "ok", files, ev)
          ELSE Dispatch(r, next, <<>>, files, bound[r], ev)

\* GET /download.
Download ==
    /\ IF zip_file_path # 0 /\ <<zip_file_path, "zip">> \in fs
       THEN /\ lastDownload' = zip_file_path
            /\ pendingRemoval' = pendingRemoval \cup {zip_file_path}
       ELSE /\ lastDownload' = 0
            /\ UNCHANGED pendingRemoval
    /\ UNCHANGED <<pc, kind, cur, result, bound, raised, events, writes,
                   processing_status, zip_file_path, fs, zipContent,
                   rq, poll, job, sel, norm, cut, seg, obs, ex, two>>

\* remove_temp_file, 60 seconds after a download.
RemoveTempFile(p) ==
    /\ p \in pendingRemoval
    /\ pendingRemoval' = pendingRemoval \ {p}
    /\ fs' = fs \ {<<p, "zip">>}
    /\ UNCHANGED <<pc, kind, cur, result, bound, raised, events, writes,
                   processing_status, zip_file_path, zipContent, lastDownload,
                   rq, poll, job, sel, norm, cut, seg, obs, ex, two>>

\* One step of the server or of the cli.
Next ==
    \/ \E r \in Runs : UploadFile(r)
    \/ \E r \in Runs : ProcessMediaStart(r)
    \/ \E r \in Runs : CliMain(r)
    \/ \E r \in Runs : \E o \in StageOutcomes(cur[r]) :
          \E io \in ServerInline(cur[r], o) : ServerResume(r, o, io)
    \/ \E r \in Runs : \E o \in StageOutcomes(cur[r]) :
          \E io \in CliInline(cur[r], o) : CliResume(r, o, io)
    \/ Download
    \/ \E p \in Runs : RemoveTempFile(p)

Spec == Init /\ [][Next]_vars

----------------------------------------------------------------------------
(* Actions of a language-model request *)

\* _make_anthropic_request / _make_openai_request is called with retries = n.
MakeRequest(p, n) ==
    /\ rq.state = "idle"
    /\ rq' = [NoRequest EXCEPT !.state = "loop", !.provider = p, !.retries = n]
    /\ UNCHANGED <<pipevars, poll, job, sel, norm, cut, seg, obs, ex, two>>

\* One iteration of the for loop: the request is sent and answered by reply.
Attempt(reply) ==
    /\ rq.state = "loop"
    /\ LET res == AttemptResult(rq.provider, reply, rq.attempt, rq.retries)
       IN rq' = [rq EXCEPT
                   !.sent = @ + 1,
                   !.log = Append(@, reply),
                   !.attempt = IF res = "continue" THEN @ + 1 ELSE @,
                   !.state = CASE res = "return" -> "returned"
                               [] res = "continue" -> "loop"
                               [] OTHER -> "raised",
                   !.error = IF res \in {"return", "continue"} THEN @ ELSE res]
    /\ UNCHANGED <<pipevars, poll, job, sel, norm, cut, seg, obs, ex, two>>

RetryStep ==
    \/ \E p \in Providers : \E n \in 0..MaxRetriesArg : MakeRequest(p, n)
    \/ \E reply \in Replies : Attempt(reply)

SpecRetry == Init /\ [][RetryStep]_vars

----------------------------------------------------------------------------
(* Actions of a transcription *)

\* start_transcription: one POST.  Neither ai_jobs.start_transcription nor
\* _make_replicate_request catches the exception of a failed POST.
StartTranscription(v, reply) ==
    /\ poll.state = "idle"
    /\ IF reply = "transport"
       THEN /\ poll' = [NoPoll EXCEPT !.state = "raised", !.variant = v,
                                      !.tries = 1, !.error = "transport"]
            /\ UNCHANGED job
       ELSE /\ poll' = [NoPoll EXCEPT !.state = "polling", !.variant = v,
                                      !.tries = 1]
            /\ job' = [status |-> "starting", error |-> "absent"]
    /\ UNCHANGED <<pipevars, rq, sel, norm, cut, seg, obs, ex, two>>

\* The provider's job moves on; a terminal status stays.
ProviderAdvance(st, e) ==
    /\ \/ job.status = "starting" /\ st = "processing" /\ e = "absent"
       \/ job.status \in {"starting", "processing"} /\ st = "succeeded" /\ e = "absent"
       \/ job.status \in {"starting", "processing"} /\ st = "failed"
    /\ job' = [status |-> st, error |-> e]
    /\ UNCHANGED <<pipevars, rq, poll, sel, norm, cut, seg, obs, ex, two>>

\* One iteration of the poll loop up to its sleep: the GET and the branch on
\* the reported status.  A failed GET raises out of the loop.
PollQuery(reply) ==
    /\ poll.state = "polling"
    /\ LET q == Min(poll.queries + 1, MaxPolls)
           br == PollBranch(job.status)
       IN IF reply = "transport"
          THEN poll' = [poll EXCEPT !.state = "raised", !.queries = q,
                                    !.tries = 1, !.error = "transport"]
          ELSE poll' = [poll EXCEPT
                          !.queries = q,
                          !.tries = 1,
                          !.last = job.status,
                          !.state = CASE br = "return" -> "returned"
                                      [] br = "raise" -> "raised"
                                      [] OTHER -> "sleeping",
                          !.value = IF br = "return" THEN "segments" ELSE @,
                          !.error = IF br = "raise"
                                    THEN FailedMessage(poll.variant, job.error)
                                    ELSE @]
    /\ UNCHANGED <<pipevars, rq, job, sel, norm, cut, seg, obs, ex, two>>

\* time.sleep(5) returns.
PollWake ==
    /\ poll.state = "sleeping"
    /\ poll' = [poll EXCEPT !.state = "polling"]
    /\ UNCHANGED <<pipevars, rq, job, sel, norm, cut, seg, obs, ex, two>>

PollAnyQuery == \E reply \in {"status", "transport"} : PollQuery(reply)

PollStep ==
    \/ \E v \in PollVariants : \E reply \in {"created", "transport"} :
          StartTranscription(v, reply)
    \/ \E st \in JobStatuses : \E e \in ProviderErrors : ProviderAdvance(st, e)
    \/ PollAnyQuery
    \/ PollWake

\* The thread that runs the poll is never suspended for ever: a GET is
\* answered or fails, and the sleep returns.
SpecPoll ==
    Init /\ [][PollStep]_vars /\ WF_vars(PollAnyQuery) /\ WF_vars(PollWake)

----------------------------------------------------------------------------
(* Actions of the capability factories *)

\* A factory is called with configuration cfg.  The constructors of the
\* adapters store their argument and do nothing else.  A factory keeps no
\* state from one call to the next, so one call is followed from the
\* initial state.
SelectTranscription(cfg) ==
    /\ sel.op = "none"
    /\ sel' = [NoSelection EXCEPT !.op = "get_transcription_model",
                                  !.cfg = cfg,
                                  !.res = get_transcription_model(cfg)]
    /\ UNCHANGED <<pipevars, rq, poll, job, norm, cut, seg, obs, ex, two>>

SelectSummarization(cfg) ==
    /\ sel.op = "none"
    /\ sel' = [NoSelection EXCEPT !.op = "get_summarization_model",
                                  !.cfg = cfg,
                                  !.res = get_summarization_model(cfg)]
    /\ UNCHANGED <<pipevars, rq, poll, job, norm, cut, seg, obs, ex, two>>

SelectClipGeneration(cfg) ==
    /\ sel.op = "none"
    /\ sel' = [NoSelection EXCEPT !.op = "get_clip_generation_model",
                                  !.cfg = cfg,
                                  !.res = get_clip_generation_model(cfg)]
    /\ UNCHANGED <<pipevars, rq, poll, job, norm, cut, seg, obs, ex, two>>

\* A run of process_media or cli.main with configuration cfg whose stage
\* operations all return: the upload and the services called.
RunWithConfig(cfg) ==
    /\ sel.op = "none"
    /\ sel' = [NoSelection EXCEPT !.op = "process_media",
                                  !.cfg = cfg,
                                  !.uploaded = TRUE,
                                  !.requests = 4,
                                  !.invoked = PipelineProviders(cfg)]
    /\ UNCHANGED <<pipevars, rq, poll, job, norm, cut, seg, obs, ex, two>>

\* GET /config.
GetConfig ==
    /\ sel.op = "none"
    /\ sel' = [NoSelection EXCEPT !.op = "get_config",
                                  !.options = AvailableOptions]
    /\ UNCHANGED <<pipevars, rq, poll, job, norm, cut, seg, obs, ex, two>>

\* The configurations a call can be given: any, while no call has been made.
SelectInputs == IF sel.op = "none" THEN Configs ELSE {}

SelectStep ==
    \/ \E cfg \in SelectInputs : SelectTranscription(cfg)
    \/ \E cfg \in SelectInputs : SelectSummarization(cfg)
    \/ \E cfg \in SelectInputs : SelectClipGeneration(cfg)
    \/ \E cfg \in SelectInputs : RunWithConfig(cfg)
    \/ GetConfig

SpecSelect == Init /\ [][SelectStep]_vars

----------------------------------------------------------------------------
(* Actions of the normalizer *)

\* _parse_json_response is called on the text of src.  The normalizer keeps
\* no state from one call to the next, so one call is followed from the
\* initial state.
ParseJsonResponse(src, pattern) ==
    /\ norm.op = "none"
    /\ norm' = [op |-> "parse_json_response", src |-> src, text |-> TextOf(src),
                pattern |-> pattern, transcript |-> <<>>, sent |-> <<>>,
                res |-> parse_json_response(TextOf(src), pattern)]
    /\ UNCHANGED <<pipevars, rq, poll, job, sel, cut, seg, obs, ex, two>>

\* extract_topics receives the text of src as the reply to its request.
ExtractTopics(src) ==
    /\ norm.op = "none"
    /\ norm' = [op |-> "extract_topics", src |-> src, text |-> TextOf(src),
                pattern |-> "topic", transcript |-> <<>>, sent |-> <<>>,
                res |-> extract_topics(TextOf(src))]
    /\ UNCHANGED <<pipevars, rq, poll, job, sel, cut, seg, obs, ex, two>>

\* generate_summary puts json.dumps(transcript) in its request and receives
\* the text of src as the reply.
GenerateSummary(transcript, src) ==
    /\ norm.op = "none"
    /\ norm' = [op |-> "generate_summary", src |-> src, text |-> TextOf(src),
                pattern |-> "none", transcript |-> transcript,
                sent |-> Serialize(<<"list", transcript>>, "default"),
                res |-> generate_summary(TextOf(src))]
    /\ UNCHANGED <<pipevars, rq, poll, job, sel, cut, seg, obs, ex, two>>

\* generate_clips receives the text of src as the reply to its request.
GenerateClips(src) ==
    /\ norm.op = "none"
    /\ norm' = [op |-> "generate_clips", src |-> src, text |-> TextOf(src),
                pattern |-> "clip", transcript |-> <<>>, sent |-> <<>>,
                res |-> generate_clips(TextOf(src))]
    /\ UNCHANGED <<pipevars, rq, poll, job, sel, cut, seg, obs, ex, two>>

\* The inputs a call can be given: any, while no call has been made.
NormalizeInputs == IF norm.op = "none" THEN Sources ELSE {}

NormalizeStep ==
    \/ \E src \in NormalizeInputs : \E pattern \in Patterns :
          ParseJsonResponse(src, pattern)
    \/ \E src \in NormalizeInputs : ExtractTopics(src)
    \/ \E src \in NormalizeInputs : \E transcript \in Transcripts :
          GenerateSummary(transcript, src)
    \/ \E src \in NormalizeInputs : GenerateClips(src)

SpecNormalize == Init /\ [][NormalizeStep]_vars

----------------------------------------------------------------------------
(* Actions of the clip materialization *)

\* The variables of the pipeline other than processing_status.
clipframe == <<pc, kind, cur, result, bound, raised, events, writes,
               zip_file_path, fs, zipContent, pendingRemoval, lastDownload>>

\* The status after stage s has returned to orchestrator k, or has raised
\* error: process_media writes the status of the stage or that of its except
\* clause, the cli writes none.
CutStatus(k, s, error) ==
    IF k # "server" THEN processing_status
    ELSE IF error = "none" THEN StatusAfter(s)[Len(StatusAfter(s))]
    ELSE ErrorStatus(error)

\* The stage orchestrator k goes to after stage s has returned.
CutNext(k, s) ==
    CASE s = "create_media_clips" -> "save_debug_info"
      [] s = "save_debug_info" -> "execute_ffmpeg_commands"
      [] s = "execute_ffmpeg_commands" ->
            IF k = "server" THEN "create_zip_of_processed_files" ELSE "done"
      [] OTHER -> "done"

\* cut once stage s has ended with error ("none": it returned).
CutAfter(s, error) ==
    [cut EXCEPT !.stage = IF error = "none" THEN CutNext(cut.kind, s) ELSE "done",
                !.raised = IF cut.kind = "cli" THEN error ELSE "none"]

\* Orchestrator k calls create_media_clips with the two replies of in, in the
\* environment and on the media file of in.  The materialization keeps no
\* state from one call to the next, so one call is followed from the initial
\* state.
CreateMediaClips(k, in) ==
    /\ cut.stage = "none"
    /\ \E plan \in {create_media_clips(in.topic_text, in.clip_text, in.env,
                                       in.media.path,
                                       OutputFolder(in.media.path))} :
          /\ cut' = [stage |-> IF plan.error = "none"
                               THEN CutNext(k, "create_media_clips") ELSE "done",
                     kind |-> k, in |-> in, plan |-> plan,
                     pieces |-> <<>>, ran |-> <<>>,
                     log |-> <<"create_media_clips">>,
                     raised |-> IF k = "cli" THEN plan.error ELSE "none"]
          /\ processing_status' = CutStatus(k, "create_media_clips", plan.error)
    /\ UNCHANGED <<clipframe, rq, poll, job, sel, norm, seg, obs, ex, two>>

\* create_clips of an adapter is called with the clips of in; no orchestrator
\* calls it, so nothing follows.
CreateClips(in) ==
    /\ cut.stage = "none"
    /\ JsonLoads(in.clip_text).ok
    /\ cut' = [stage |-> "done", kind |-> "adapter", in |-> in,
               plan |-> create_clips(JsonLoads(in.clip_text).val, in.env,
                                     in.media.path, OutputFolder(in.media.path)),
               pieces |-> <<>>, ran |-> <<>>, log |-> <<"create_clips">>,
               raised |-> "none"]
    /\ UNCHANGED <<pipevars, rq, poll, job, sel, norm, seg, obs, ex, two>>

\* save_debug_info returns or raises; when it has returned the orchestrator
\* calls execute_ffmpeg_commands with the batch, which splits it.
SaveDebugInfo(o) ==
    /\ cut.stage = "save_debug_info"
    /\ LET error == IF o = "ok" THEN "none" ELSE o
       IN /\ cut' = [CutAfter("save_debug_info", error) EXCEPT
                        !.log = Append(cut.log, "save_debug_info")
                                \o (IF error = "none"
                                    THEN <<"execute_ffmpeg_commands">> ELSE <<>>),
                        !.pieces = IF error = "none"
                                   THEN Pieces(cut.kind, cut.plan.batch)
                                   ELSE <<>>]
          /\ processing_status' = CutStatus(cut.kind, "save_debug_info", error)
    /\ UNCHANGED <<clipframe, rq, poll, job, sel, norm, seg, obs, ex, two>>

\* The loop of execute_ffmpeg_commands runs the next command; when the
\* command fails, CalledProcessError leaves execute_ffmpeg_commands and ends
\* the orchestrator.
RunCommand(o) ==
    /\ cut.stage = "execute_ffmpeg_commands"
    /\ Len(cut.ran) < Len(cut.pieces)
    /\ o \in RunOutcomes(cut.pieces[Len(cut.ran) + 1])
    /\ LET raises == AfterRun(o) = "raise"
           error == IF raises THEN "Command returned non-zero exit status 1."
                    ELSE "none"
       IN /\ cut' = [cut EXCEPT
                        !.ran = Append(cut.ran, o),
                        !.stage = IF raises THEN "done" ELSE @,
                        !.raised = IF raises /\ cut.kind = "cli" THEN error ELSE @]
          /\ processing_status' =
                IF raises THEN CutStatus(cut.kind, "execute_ffmpeg_commands", error)
                ELSE processing_status
    /\ UNCHANGED <<clipframe, rq, poll, job, sel, norm, seg, obs, ex, two>>

\* The loop of execute_ffmpeg_commands has run every command and the call
\* returns.
ExecuteReturn ==
    /\ cut.stage = "execute_ffmpeg_commands"
    /\ Len(cut.ran) = Len(cut.pieces)
    /\ cut' = CutAfter("execute_ffmpeg_commands", "none")
    /\ processing_status' = CutStatus(cut.kind, "execute_ffmpeg_commands", "none")
    /\ UNCHANGED <<clipframe, rq, poll, job, sel, norm, seg, obs, ex, two>>

\* create_zip_of_processed_files returns or raises, and process_media ends.
CreateZip(o) ==
    /\ cut.stage = "create_zip_of_processed_files"
    /\ LET error == IF o = "ok" THEN "none" ELSE o
       IN /\ cut' = [CutAfter("create_zip_of_processed_files", error) EXCEPT
                        !.log = Append(cut.log, "create_zip_of_processed_files")]
          /\ processing_status' =
                CutStatus(cut.kind, "create_zip_of_processed_files", error)
    /\ UNCHANGED <<clipframe, rq, poll, job, sel, norm, seg, obs, ex, two>>

\* The inputs a materialization can be given: any, while none has been made.
CutInputs == IF cut.stage = "none" THEN ClipInputs ELSE {}

CutStep ==
    \/ \E k \in {"server", "cli"} : \E in \in CutInputs : CreateMediaClips(k, in)
    \/ \E in \in CutInputs : CreateClips(in)
    \/ \E o \in StageOutcomes("save_debug_info") : SaveDebugInfo(o)
    \/ \E o \in {"ok", "failed"} : RunCommand(o)
    \/ ExecuteReturn
    \/ \E o \in StageOutcomes("create_zip_of_processed_files") : CreateZip(o)

SpecClips == Init /\ [][CutStep]_vars

----------------------------------------------------------------------------
(* Actions of the transcription result *)

\* The transcription has succeeded with output and get_transcription_result
\* of adapter hands back its segments.  The adapters keep no segments from
\* one call to the next, so one call is followed from the initial state.
GetTranscriptionResult(adapter, output) ==
    /\ seg.adapter = "none"
    /\ seg' = [adapter |-> adapter, output |-> output,
               res |-> ResultOf(adapter, output)]
    /\ UNCHANGED <<pipevars, rq, poll, job, sel, norm, cut, obs, ex, two>>

SegmentsStep ==
    \E adapter \in TranscriptionAdapters : \E output \in Outputs :
        GetTranscriptionResult(adapter, output)

SpecSegments == Init /\ [][SegmentsStep]_vars

----------------------------------------------------------------------------
(* Actions of the status query *)

\* GET /status is answered.  The handler runs on the event loop, as
\* process_media and upload_file do, and has no await: it is one step.
GetStatus ==
    /\ ~obs.asked
    /\ obs' = [asked |-> TRUE, value |-> get_status(processing_status)]
    /\ UNCHANGED <<pipevars, rq, poll, job, sel, norm, cut, seg, ex, two>>

\* The server with a status query.  The query changes nothing the server
\* reads, so a behaviour is followed up to its first query.
StatusStep ==
    \/ ~obs.asked /\ \E r \in Runs : UploadFile(r)
    \/ ~obs.asked /\ \E r \in Runs : ProcessMediaStart(r)
    \/ ~obs.asked /\ \E r \in Runs : \E o \in StageOutcomes(cur[r]) :
          \E io \in ServerInline(cur[r], o) : ServerResume(r, o, io)
    \/ GetStatus

SpecStatus == Init /\ [][StatusStep]_vars

----------------------------------------------------------------------------
(* Actions of a run with its transcription *)

\* Run r of the server awaits stage s.
Awaits(r, s) == pc[r] = "running" /\ kind[r] = "server" /\ cur[r] = s

\* The outcome o of the stage run r awaits is that of the transcription:
\* start_transcription is the job-creation request and returns when the
\* request has been answered, get_transcription_result is the poll and
\* returns the segments or raises when the poll has ended.
TranscriptionAgrees(r, o) ==
    CASE cur[r] = "start_transcription" ->
            /\ poll.state \in {"polling", "raised"}
            /\ IsOk(o) <=> poll.state = "polling"
      [] cur[r] = "get_transcription_result" ->
            /\ poll.state \in {"returned", "raised"}
            /\ IsOk(o) <=> poll.state = "returned"
      [] OTHER -> TRUE

\* One run of the server together with the transcription it starts and
\* polls through ai_jobs.  The poll has no limit of time or of queries: it
\* goes on for as long as the provider reports a status that is not
\* terminal.
BlockedStep ==
    \/ UploadFile(1)
    \/ ProcessMediaStart(1)
    \/ \E o \in StageOutcomes(cur[1]) : \E io \in ServerInline(cur[1], o) :
          TranscriptionAgrees(1, o) /\ ServerResume(1, o, io)
    \/ \E reply \in {"created", "transport"} :
          Awaits(1, "start_transcription") /\ StartTranscription(PipelinePoll, reply)
    \/ \E st \in JobStatuses : \E e \in ProviderErrors : ProviderAdvance(st, e)
    \/ Awaits(1, "get_transcription_result") /\ PollAnyQuery
    \/ PollWake

SpecBlocked == Init /\ [][BlockedStep]_vars

----------------------------------------------------------------------------
(* Actions of the two clip paths *)

\* ai_jobs.create_media_clips on the replies, the environment and the media
\* file of in.
LegacyPath(in) ==
    /\ two.op = "none"
    /\ two' = [two EXCEPT !.op = "legacy", !.in = in,
                          !.legacy = create_media_clips(in.topic_text, in.clip_text,
                                                        in.env, in.media.path,
                                                        OutputFolder(in.media.path))]
    /\ UNCHANGED <<pipevars, rq, poll, job, sel, norm, cut, seg, obs, ex>>

\* extract_topics, generate_clips and create_clips of the Anthropic adapter
\* on the same replies, environment and media file.
AnthropicPath ==
    /\ two.op = "legacy"
    /\ two' = [two EXCEPT !.op = "both",
                          !.adapter = AdapterPath(two.in.topic_text, two.in.clip_text,
                                                  two.in.env, two.in.media.path,
                                                  OutputFolder(two.in.media.path))]
    /\ UNCHANGED <<pipevars, rq, poll, job, sel, norm, cut, seg, obs, ex>>

PathInputs == IF two.op = "none" THEN ClipInputs ELSE {}

PathStep ==
    \/ \E in \in PathInputs : LegacyPath(in)
    \/ AnthropicPath

SpecPaths == Init /\ [][PathStep]_vars

----------------------------------------------------------------------------
(* Actions of the exporters *)

\* get_exporter is called with export_format.  It keeps no state from one
\* call to the next, so one call is followed from the initial state.
GetExporter(export_format) ==
    /\ ex.op = "none"
    /\ ex' = [op |-> "get_exporter", format |-> export_format,
              res |-> get_exporter(export_format)]
    /\ UNCHANGED <<pipevars, rq, poll, job, sel, norm, cut, seg, obs, two>>

ExportStep == \E export_format \in ExportFormats : GetExporter(export_format)

SpecExport == Init /\ [][ExportStep]_vars

----------------------------------------------------------------------------
(* The orchestrator: order of the stages, errors, cleanup, archive *)

ServerRuns == {r \in Runs : kind[r] = "server"}
CliRuns == {r \in Runs : kind[r] = "cli"}

\* The stage operations of the pipeline in the order the spec gives them.
PipelineOrder ==
    <<"upload_to_s3", "get_s3_presigned_url", "start_transcription",
      "get_transcription_result", "generate_content", "create_media_clips",
      "execute_ffmpeg_commands", "create_zip_of_processed_files">>

\* The events of run r that concern the stage operations of PipelineOrder.
OrderedEvents(r) == SelectSeq(events[r], LAMBDA e : e[2] # "save_debug_info")

Called(r, s) == \E i \in 1..Len(events[r]) : events[r][i] = <<"call", s, "-">>

Wrote(r, st) == \E i \in 1..Len(writes[r]) : writes[r][i].status = st

\* C1: in every run, of the server and of the cli, the stage operations are
\* called in the order upload, presign, transcription start, poll,
\* summarization, clip planning, clip cutting and (server) archive creation,
\* each call after the return of the one before it, and a call follows only
\* a successful return; the cli never creates an archive.
C1_StagesInOrder ==
    \A r \in Runs :
        LET ev == OrderedEvents(r)
        IN /\ Len(ev) <= 2 * Len(PipelineOrder)
           /\ \A i \in 1..Len(ev) :
                /\ ev[i][2] = PipelineOrder[(i + 1) \div 2]
                /\ ev[i][1] = (IF i % 2 = 1 THEN "call" ELSE "ret")
                /\ (i % 2 = 1 /\ i > 1) => IsOk(ev[i - 1][3])
           /\ kind[r] = "cli" => ~Called(r, "create_zip_of_processed_files")

\* A server run has gone through all eight stages and a cli run through its
\* seven.
C1_Witness ==
    /\ \E r \in ServerRuns :
          pc[r] = "done" /\ Len(OrderedEvents(r)) = 2 * Len(PipelineOrder)
    /\ \E r \in CliRuns :
          pc[r] = "done" /\ Len(OrderedEvents(r)) = 2 * (Len(PipelineOrder) - 1)

\* C2: a run of process_media in which a stage (or the writing of the
\* transcript or summary) failed ends with status 'error' as the last status
\* it wrote; a run writes 'error' only as its last status, and never writes
\* both 'error' and 'completed'.
C2_ErrorAbsorbing ==
    \A r \in ServerRuns :
        /\ (pc[r] = "done" /\ result[r] # "ok") =>
              (Len(writes[r]) > 0 /\ writes[r][Len(writes[r])].status = "error")
        /\ \A i \in 1..Len(writes[r]) :
              writes[r][i].status = "error" => i = Len(writes[r])
        /\ ~(Wrote(r, "error") /\ Wrote(r, "completed"))

\* A run has failed in its last stage, archive creation.
C2_Witness ==
    \E r \in ServerRuns :
        /\ pc[r] = "done"
        /\ result[r] = StageError("create_zip_of_processed_files")
        /\ Wrote(r, "error")

\* C3 as stated: once process_media has terminated, the input media file and
\* the output folder with all it held are gone and the cleanup has not raised.
C3_CleanupAlwaysSucceeds ==
    \A r \in ServerRuns :
        pc[r] = "done" =>
            /\ <<r, "media">> \notin fs
            /\ \A n \in FolderFiles : <<r, n>> \notin fs
            /\ raised[r] = "none"

\* The last event of run r.
LastEvent(r) == events[r][Len(events[r])]

\* The last event of run r is the return of a failed stage operation.
EndsOnFailedStage(r) ==
    /\ Len(events[r]) > 0
    /\ LastEvent(r)[1] = "ret"
    /\ ~IsOk(LastEvent(r)[3])

\* C4: the step in which process_media handles the failure with description
\* d leaves the status cell at exactly ('error', 0, 'Error: ' + d), where d
\* is the description of the failure that ended the run: that of the stage
\* operation when one failed.
C4_ErrorMessage ==
    [][\A r \in ServerRuns :
          (pc[r] = "running" /\ pc'[r] = "done" /\ result'[r] # "ok") =>
              /\ processing_status' =
                    [status |-> "error", progress |-> 0,
                     message |-> "Error: " \o result'[r]]
              /\ EndsOnFailedStage(r)' => result'[r] = LastEvent(r)'[3]]_vars

\* The status cell holds the error of a failed summarization while another
\* run has failed at upload.
C4_Witness ==
    /\ processing_status =
          [status |-> "error", progress |-> 0,
           message |-> "Error: generate_content failed"]
    /\ \E r \in ServerRuns : pc[r] = "done" /\ result[r] = "generate_content failed"
    /\ \E r \in ServerRuns : pc[r] = "done" /\ result[r] = "upload_to_s3 failed"

\* C5: in one run, of the server and of the cli, every stage operation is
\* called at most once, a failed return is the last event of the run, and
\* the run ends in the orchestrator's next step.
C5_NoRetry ==
    \A r \in Runs :
        /\ \A i, j \in 1..Len(events[r]) :
              (events[r][i][1] = "call" /\ events[r][j][1] = "call"
               /\ events[r][i][2] = events[r][j][2]) => i = j
        /\ \A i \in 1..Len(events[r]) :
              (events[r][i][1] = "ret" /\ ~IsOk(events[r][i][3])) =>
                  (i = Len(events[r]) /\ pc[r] = "done")
        /\ (pc[r] = "done" /\ result[r] # "ok") =>
              (Len(events[r]) > 0 /\ events[r][Len(events[r])][1] = "ret")

\* A server run has ended on a failed summarization and a cli run on a
\* failed poll.
C5_Witness ==
    /\ \E r \in ServerRuns :
          /\ pc[r] = "done" /\ result[r] = StageError("generate_content")
          /\ Len(events[r]) = 10
    /\ \E r \in CliRuns :
          /\ pc[r] = "done" /\ result[r] = StageError("get_transcription_result")
          /\ Len(events[r]) = 8

AllStagesSucceeded(r) ==
    \A s \in Stages : \E i \in 1..Len(events[r]) : events[r][i] = <<"ret", s, "ok">>

----------------------------------------------------------------------------
(* The language-model request: retries *)

RequestFinished == rq.state \in {"returned", "raised"}

\* Every reply in the log but the last is a failure.
FailedBefore(n) == \A i \in 1..(n - 1) : rq.log[i] # "text"

AllFailed == \A i \in 1..Len(rq.log) : rq.log[i] # "text"

\* What claim C7 says of the number of requests, of returning and of
\* retrying: between 1 and retries + 1 requests are sent; the call returns
\* on the first reply that succeeds and sends nothing after it; while the
\* call is still in its loop every reply so far has failed and at least one
\* attempt remains.
RetryDiscipline ==
    /\ rq.sent = Len(rq.log)
    /\ rq.state # "idle" => rq.sent <= rq.retries + 1
    /\ RequestFinished => rq.sent >= 1
    /\ rq.state = "returned" =>
          rq.log[rq.sent] = "text" /\ FailedBefore(rq.sent)
    /\ rq.state = "raised" => AllFailed
    /\ rq.state = "loop" => AllFailed /\ rq.sent <= rq.retries

\* C7 (as amended): a language-model request called with retries = r sends
\* between 1 and r + 1 requests, returns the first successful reply without
\* sending another request, and goes on to the next attempt after a failed
\* one while attempts remain.  It raises when all r + 1 attempts have failed
\* or, in _make_anthropic_request only, at the first reply that has no error
\* member and an empty content list, whatever the number of attempts left.
C7_RetryBounds ==
    /\ RetryDiscipline
    /\ rq.state = "raised" =>
          \/ rq.sent = rq.retries + 1
          \/ rq.provider = "anthropic" /\ rq.log[rq.sent] = "empty_content"
    /\ rq.state = "raised" /\ rq.error = "IndexError" =>
          rq.provider = "anthropic" /\ rq.log[rq.sent] = "empty_content"
    /\ rq.provider = "openai" /\ rq.state = "raised" =>
          rq.sent = rq.retries + 1

\* C7 as the specification states it: the request raises exactly when all
\* r + 1 attempts have failed.
C7_RaisesOnlyWhenExhausted ==
    /\ rq.sent = Len(rq.log)
    /\ rq.state # "idle" => rq.sent <= rq.retries + 1
    /\ rq.state = "returned" => rq.log[rq.sent] = "text"
    /\ rq.state = "raised" <=>
          (rq.state # "idle" /\ rq.sent = rq.retries + 1 /\ AllFailed)

\* A call with the default number of retries whose three attempts fail, by
\* transport and by error member.
C7_Witness ==
    /\ rq.state = "raised"
    /\ rq.retries = DefaultRetries
    /\ rq.log = <<"transport", "envelope", "transport">>

----------------------------------------------------------------------------
(* The transcription: job-creation request and poll *)

PollFinished == poll.state \in {"returned", "raised"}

\* C8: every operation that calls a network provider, the job-creation
\* request and the status queries of transcription included, tries a request
\* again after a transport failure, up to DefaultRetries more times, before
\* the operation fails.
C8_TransportFailureRetried ==
    poll.state = "raised" /\ poll.error = "transport" =>
        poll.tries = DefaultRetries + 1

\* The poll stops at the first terminal status reported: it returns the
\* segments exactly when that status is 'succeeded', raises when it is
\* 'failed', and sleeps and queries again exactly when the status reported
\* is not terminal.
PollStopsAtTerminal ==
    /\ poll.last \in TerminalStatuses => PollFinished
    /\ poll.last = "succeeded" <=> poll.state = "returned"
    /\ poll.state = "returned" => poll.value = "segments"
    /\ poll.last = "failed" =>
          poll.state = "raised" /\ poll.error # "transport"
    /\ poll.state \in {"sleeping", "polling"} /\ poll.queries > 0 =>
          poll.last \in JobStatuses \ TerminalStatuses
    /\ poll.state = "sleeping" => poll.queries > 0
    /\ poll.last \in JobStatuses \ TerminalStatuses =>
          \/ poll.state \in {"sleeping", "polling"}
          \/ poll.state = "raised" /\ poll.error = "transport"

\* No status query is sent once a terminal status has been reported.
NoQueryAfterTerminal ==
    [][poll.last \in TerminalStatuses => poll' = poll]_vars

\* C9: the poll stops at the first terminal status the provider reports and
\* sends no query after it; it queries again, after its sleep, exactly when
\* the status reported is not terminal; and once the provider's job is in a
\* terminal status the poll eventually ends.
C9_PollTerminates ==
    /\ []PollStopsAtTerminal
    /\ NoQueryAfterTerminal
    /\ (poll.state \in {"polling", "sleeping"} /\ job.status \in TerminalStatuses)
          ~> PollFinished

\* The poll returned the segments after at least two queries, or raised on
\* 'failed' after at least two queries.
C9_Witness ==
    /\ PollFinished
    /\ poll.queries >= 2
    /\ poll.last \in TerminalStatuses

\* C10: when the provider reports 'failed' with error message m, the poll
\* raises an error whose message carries m and sends no further query; this
\* holds for the poll of each adapter and for the poll the pipeline runs.
C10_FailedCarriesMessage ==
    poll.last = "failed" =>
        /\ poll.state = "raised"
        /\ poll.error = "Transcription process failed: " \o ReportedError(job.error)

----------------------------------------------------------------------------
(* The capability factories: selection *)

\* The provider names for which an adapter class exists.
RegisteredTranscription == {"replicate", "local_whisper"}
RegisteredReplicate == {"whisperx", "incredibly-fast-whisper"}
RegisteredSummarization == {"anthropic"}
RegisteredClipGeneration == {"anthropic", "openai"}

FactoryCalled ==
    sel.op \in {"get_transcription_model", "get_summarization_model",
                "get_clip_generation_model"}

\* The configuration of the call names, for the capability of the factory
\* called, a provider that is not registered.
NamesUnregistered ==
    CASE sel.op = "get_transcription_model" ->
           \/ Get(sel.cfg.transcription_model, "replicate")
                 \notin RegisteredTranscription
           \/ /\ Get(sel.cfg.transcription_model, "replicate") = "replicate"
              /\ Get(sel.cfg.selected_replicate_model, "whisperx")
                    \notin RegisteredReplicate
      [] sel.op = "get_summarization_model" ->
           Get(sel.cfg.summarization_model, "anthropic")
              \notin RegisteredSummarization
      [] sel.op = "get_clip_generation_model" ->
           Get(sel.cfg.clip_generation_model, "anthropic")
              \notin RegisteredClipGeneration
      [] OTHER -> FALSE

\* C11: a capability factory called with a configuration that names a
\* provider that is not registered raises; it has sent no network request,
\* created no adapter and written no status.
C11_UnregisteredProviderRaises ==
    FactoryCalled /\ NamesUnregistered =>
        /\ sel.res.raised
        /\ sel.res.adapter = "none"
        /\ sel.requests = 0
        /\ ~sel.uploaded
        /\ processing_status = NoStatus
        /\ \A r \in Runs : writes[r] = <<>>

\* get_transcription_model was called with a Replicate model it does not
\* know, although a version is configured for it, and raised.
C11_Witness ==
    /\ sel.op = "get_transcription_model"
    /\ sel.cfg.transcription_model = "replicate"
    /\ sel.cfg.selected_replicate_model = "parakeet"
    /\ "parakeet" \in sel.cfg.replicate_model_versions
    /\ sel.res.raised
    /\ sel.res.error = "Unknown Replicate model type"

\* The configuration of the run names an unregistered provider for some
\* capability.
RunNamesUnregistered ==
    \/ Get(sel.cfg.transcription_model, "replicate") \notin RegisteredTranscription
    \/ /\ Get(sel.cfg.transcription_model, "replicate") = "replicate"
       /\ Get(sel.cfg.selected_replicate_model, "whisperx") \notin RegisteredReplicate
    \/ Get(sel.cfg.summarization_model, "anthropic") \notin RegisteredSummarization
    \/ Get(sel.cfg.clip_generation_model, "anthropic") \notin RegisteredClipGeneration

\* C12: in a pipeline run the service called for each capability is the one
\* the run's configuration names, so that runs with different selections
\* call different services; a run whose configuration names an unknown
\* provider fails before the upload and before any provider call.
C12_ConfiguredProviderInvoked ==
    sel.op = "process_media" =>
        IF RunNamesUnregistered
        THEN /\ ~sel.uploaded
             /\ sel.invoked = NoProviders
        ELSE sel.invoked =
                [transcription |-> Get(sel.cfg.transcription_model, "replicate"),
                 summarization |-> Get(sel.cfg.summarization_model, "anthropic"),
                 clip_generation |-> Get(sel.cfg.clip_generation_model, "anthropic")]

\* The selection the call was given is one that GET /config offers for the
\* capability of the factory called; for a Replicate model, one that has a
\* configured version.
SelectionOffered ==
    CASE sel.op = "get_transcription_model" ->
           /\ sel.cfg.transcription_model \in AvailableOptions.transcription_models
           /\ sel.cfg.selected_replicate_model \in AvailableOptions.replicate_models
           /\ sel.cfg.selected_replicate_model \in sel.cfg.replicate_model_versions
      [] sel.op = "get_summarization_model" ->
           sel.cfg.summarization_model \in AvailableOptions.summarization_models
      [] sel.op = "get_clip_generation_model" ->
           sel.cfg.clip_generation_model \in AvailableOptions.clip_generation_models
      [] OTHER -> FALSE

\* C13: every provider that GET /config offers for a capability is
\* resolvable: the capability's factory returns an adapter for it.
C13_OfferedProvidersResolve ==
    FactoryCalled /\ SelectionOffered =>
        ~sel.res.raised /\ sel.res.adapter # "none"

----------------------------------------------------------------------------
(* The normalizer *)

NormalizerCalled == norm.op = "parse_json_response"

\* The text of the call is the serialization of a JSON value and nothing
\* else.
SerializedValue ==
    /\ norm.src.value # <<"none">>
    /\ norm.src.before = <<>>
    /\ norm.src.after = <<>>

\* C14: _parse_json_response applied to the serialization of a JSON value
\* (object, array, string, number, boolean, null), in any layout of the
\* serializer and with or without a fallback pattern, returns a value equal
\* to the one serialized.
C14_RoundTrip ==
    NormalizerCalled /\ SerializedValue =>
        /\ norm.res.outcome = "returned"
        /\ norm.res.value = norm.src.value

\* An object that holds a list with a string of escaped characters was
\* serialized with tab indentation, normalized with the topic pattern, and
\* came back equal.
C14_Witness ==
    /\ NormalizerCalled
    /\ norm.pattern = "topic"
    /\ norm.src.layout = "tabbed"
    /\ SerializedValue
    /\ norm.src.value =
          <<"dict", << <<ContentKey,
                         <<"list", << <<"str", <<"q", "\"", "\n", "\t", "\\">>>>,
                                      <<"num", <<"7">>>> >> >> >> >> >>
    /\ norm.res.outcome = "returned"
    /\ norm.res.by = "direct"
    /\ norm.res.value = norm.src.value

\* The text holds neither a brace nor a bracket.
Plain(text) == \A n \in 1..Len(text) : text[n] \notin {"{", "["}

\* The object {"content": text}.
ContentObject(text) == <<"dict", << <<ContentKey, <<"str", text>> >> >> >>

\* C15: for a response text without '{' and without '[' the normalizer does
\* not raise; it returns the object whose only key, content, holds the text
\* with control characters removed and surrounding whitespace trimmed.
C15_PlainTextWrapped ==
    NormalizerCalled /\ Plain(norm.text) =>
        /\ norm.res.outcome = "returned"
        /\ norm.res.value = ContentObject(Strip(Clean(norm.text), PythonWhitespace))

\* Some stretch of the text from a '{' to a '}' is a JSON text.
HasJsonInside(text) ==
    \E i \in 1..Len(text) : \E j \in i..Len(text) :
        /\ text[i] = "{"
        /\ text[j] = "}"
        /\ JsonLoads(SubSeq(text, i, j)).ok

\* The text is prose, one JSON object, prose.
ObjectInProse ==
    /\ norm.src.value[1] = "dict"
    /\ norm.src.before = ProseBefore
    /\ norm.src.after = ProseAfter

\* C16: for a response text made of prose, one balanced JSON object of any
\* nesting depth and prose again, the brace scan of the normalizer returns
\* exactly that object.
C16_EmbeddedObjectExtracted ==
    NormalizerCalled /\ ObjectInProse =>
        /\ norm.res.outcome = "returned"
        /\ norm.res.by = "extract"
        /\ norm.res.value = norm.src.value

\* The text holds a brace or a bracket and nothing in it is JSON.
Garbage(text) ==
    /\ ~Plain(text)
    /\ ~JsonLoads(Clean(text)).ok
    /\ ~HasJsonInside(Clean(text))

\* C17: for a response text that holds '{' or '[' but no JSON, and without
\* fallback pattern, the normalizer raises 'Failed to parse AI response',
\* and the error carries the text.
C17_GarbageIsParseFailure ==
    NormalizerCalled /\ norm.pattern = "none" /\ Garbage(norm.text) =>
        /\ norm.res.outcome = "raised"
        /\ norm.res.error = "Failed to parse AI response"
        /\ norm.res.carried = Clean(norm.text)

\* The strategies in their order, for a call with and without pattern.
StrategyOrder(pattern) ==
    IF pattern = "none" THEN <<"direct", "extract", "wrap">>
    ELSE <<"direct", "extract", "pattern", "wrap">>

\* The first strategy of the order that succeeds on the text, or "none".
FirstSuccess(text, pattern) ==
    IF JsonLoads(Clean(text)).ok THEN "direct"
    ELSE IF HasJsonInside(Clean(text)) THEN "extract"
    ELSE IF FindAll(pattern, Clean(text)) # <<>> THEN "pattern"
    ELSE IF Plain(Clean(text)) THEN "wrap"
    ELSE "none"

\* C18: the normalizer tries direct parse, brace scan, fallback pattern and
\* plain-text wrap in this order and returns the result of the first that
\* succeeds; a later strategy is tried only when the earlier ones failed,
\* and for a text that parses directly the result is that of the direct
\* parse whatever the pattern is.
C18_StrategiesInOrder ==
    NormalizerCalled =>
        LET first == FirstSuccess(norm.text, norm.pattern)
            order == StrategyOrder(norm.pattern)
        IN /\ \E n \in 1..Len(order) : norm.res.tried = SubSeq(order, 1, n)
           /\ first = "direct" =>
                 /\ norm.res.value = JsonLoads(Clean(norm.text)).val
                 /\ norm.res.tried = <<"direct">>
           /\ first # "none" =>
                 /\ norm.res.outcome = "returned"
                 /\ norm.res.by = first
                 /\ norm.res.tried[Len(norm.res.tried)] = first
           /\ first = "none" =>
                 /\ norm.res.outcome = "raised"
                 /\ norm.res.error = "Failed to parse AI response"
                 /\ norm.res.tried = order

\* C19: when the reply to the topic request is not JSON as a whole but holds
\* two fragments that match the topic pattern, extract_topics returns two
\* topics in the order of the reply, each with the captured title and with
\* the captured keyword text split on commas, every keyword trimmed of
\* spaces and double quotes.
C19_TopicsFromPattern ==
    /\ norm.op = "extract_topics"
    /\ ~JsonLoads(Clean(norm.text)).ok
    /\ Len(FindAll("topic", Clean(norm.text))) = 2
    => /\ norm.res.outcome = "returned"
       /\ norm.res.value =
             <<"list", <<TopicOf(FindAll("topic", Clean(norm.text))[1]),
                         TopicOf(FindAll("topic", Clean(norm.text))[2])>> >>

\* What the normalizer makes of the reply that generate_summary received.
Normalized == parse_json_response(norm.text, "none")

\* C20: when the reply to the summarization request normalizes to an
\* object, generate_summary returns the value under the first of the keys
\* content, text, summary that the object has; the request holds the
\* segments of the transcript in their order, and a reply that is the
\* object {"content": s} yields s.
C20_SummaryKeyPriority ==
    norm.op = "generate_summary" =>
        /\ JsonLoads(norm.sent).val = <<"list", norm.transcript>>
        /\ Normalized.outcome = "returned" /\ Normalized.value[1] = "dict" =>
              LET pairs == Normalized.value[2]
              IN IF HasKey(pairs, ContentKey)
                 THEN /\ norm.res.outcome = "returned"
                      /\ norm.res.value = DictGet(pairs, ContentKey)
                 ELSE IF HasKey(pairs, TextKey)
                 THEN /\ norm.res.outcome = "returned"
                      /\ norm.res.value = DictGet(pairs, TextKey)
                 ELSE HasKey(pairs, SummaryKey) =>
                         /\ norm.res.outcome = "returned"
                         /\ norm.res.value = DictGet(pairs, SummaryKey)
        /\ /\ SerializedValue
           /\ norm.src.value[1] = "dict"
           /\ Len(norm.src.value[2]) = 1
           /\ norm.src.value[2][1][1] = ContentKey
           => /\ norm.res.outcome = "returned"
              /\ norm.res.value = norm.src.value[2][1][2]

\* The transcript of two segments was sent, the reply was an object with the
\* key summary before the key content, and generate_summary returned the
\* value of content.
C20_Witness ==
    /\ norm.op = "generate_summary"
    /\ Len(norm.transcript) = 2
    /\ norm.transcript[1][2][3][2] = <<"str", <<"h", "e", "l", "l", "o">>>>
    /\ SerializedValue
    /\ norm.src.value =
          <<"dict", << <<SummaryKey, <<"str", <<"a", " ", "b">>>> >>,
                       <<ContentKey, <<"str", <<"o", "k">>>> >> >> >>
    /\ norm.res.outcome = "returned"
    /\ norm.res.value = <<"str", <<"o", "k">>>>

\* The reply normalized to a value that is neither a string nor an object
\* with one of the keys of generate_summary.
OtherShape(value) ==
    \/ value[1] \in {"list", "num", "bool", "null"}
    \/ /\ value[1] = "dict"
       /\ \A n \in 1..Len(SummaryKeys) : ~HasKey(value[2], SummaryKeys[n])

\* C21: when the reply to the summarization request normalizes to a bare
\* string, generate_summary returns that string; when it normalizes to an
\* array, a number or an object without the keys content, text and summary,
\* generate_summary raises 'Failed to extract summary from AI response' and
\* returns nothing.
C21_OtherShapesRaise ==
    norm.op = "generate_summary" /\ Normalized.outcome = "returned" =>
        /\ Normalized.value[1] = "str" =>
              /\ norm.res.outcome = "returned"
              /\ norm.res.value = Normalized.value
        /\ OtherShape(Normalized.value) =>
              /\ norm.res.outcome = "raised"
              /\ norm.res.error = "Failed to extract summary from AI response"
              /\ norm.res.value = <<"none">>

\* The reply was an array that holds an object with the key content, and
\* generate_summary raised.
C21_Witness ==
    /\ norm.op = "generate_summary"
    /\ SerializedValue
    /\ norm.src.value =
          <<"list", << <<"dict", << <<ContentKey, <<"str", <<"a", " ", "b">>>> >> >> >> >> >>
    /\ norm.res.outcome = "raised"
    /\ norm.res.error = "Failed to extract summary from AI response"

\* C22 (as the specification states it): extract_topics and generate_clips
\* never return an empty sequence; an empty result raises.
C22_NeverEmpty ==
    /\ norm.op \in {"extract_topics", "generate_clips"}
    /\ norm.res.outcome = "returned"
    => norm.res.value # <<"list", <<>>>>

----------------------------------------------------------------------------
(* The clip materialization *)

\* A materialization has been made and has returned its commands.
Materialized == cut.stage # "none" /\ cut.plan.error = "none"

\* The windows of the materialization that are ClipWindows: the start is not
\* negative and the end is after the start.
ClipWindows ==
    {n \in 1..Len(cut.plan.windows) :
        /\ cut.plan.windows[n].start >= 0
        /\ cut.plan.windows[n].end > cut.plan.windows[n].start}

\* C23: for every ClipWindow given to the materialization the buffered start
\* is max(0, start - 0.5), which is not negative, the buffered end is
\* end + 0.5, the buffered window is at least as long as the window, and
\* the command of the window holds the two buffered times.
C23_BufferNeverShrinks ==
    Materialized =>
        \A n \in ClipWindows :
            LET w == cut.plan.windows[n]
            IN /\ w.start_time >= 0
               /\ \/ w.start_time = w.start - Buffer
                  \/ w.start_time = 0 /\ w.start < Buffer
               /\ w.end_time - w.end = Buffer
               /\ w.end_time - w.start_time >= w.end - w.start
               /\ \E i \in 1..Len(cut.plan.commands[n]) :
                     HasPrefix(cut.plan.commands[n], i,
                               <<" ", "-", "s", "s", " ">> \o Format2(w.start_time)
                               \o <<" ", "-", "t", "o", " ">> \o Format2(w.end_time) \o <<" ", "-", "y">>)

\* A materialization of two ClipWindows, one that starts less than the buffer
\* after the beginning of the media and one that starts later.
C23_Witness ==
    /\ Materialized
    /\ \E n \in ClipWindows :
          cut.plan.windows[n].start \in 1..(Buffer - 1)
          /\ cut.plan.windows[n].start_time = 0
    /\ \E n \in ClipWindows :
          cut.plan.windows[n].start > Buffer
          /\ cut.plan.windows[n].start_time > 0

\* C24 (as the specification states it): every window the pipeline cuts ends
\* after it starts, and its buffered times lie within the media:
\* 0 <= start_time < end_time <= media_duration.
C24_WindowsInsideMedia ==
    Materialized /\ cut.kind \in {"server", "cli"} =>
        \A n \in 1..Len(cut.plan.windows) :
            LET w == cut.plan.windows[n]
            IN /\ w.end > w.start
               /\ 0 <= w.start_time
               /\ w.start_time < w.end_time
               /\ w.end_time <= cut.in.media.duration

\* C25 (as the specification states it): the file name of a clip holds
\* alphanumeric characters and underscores only, and begins or ends with an
\* underscore only where the title itself begins or ends with an underscore
\* or a space.
C25_SafeNames ==
    Materialized =>
        \A n \in 1..Len(cut.plan.windows) :
            LET w == cut.plan.windows[n]
            IN /\ \A i \in 1..Len(w.name) : w.name[i] \in Alnum \cup {"_"}
               /\ w.name # <<>> /\ w.name[1] = "_"
                     => w.title[1] \in {"_", " "}
               /\ w.name # <<>> /\ w.name[Len(w.name)] = "_"
                     => w.title[Len(w.title)] \in {"_", " "}

\* C26: the materialization returns one command per clip, in the order of
\* the clips, joined into one batch, and no command is run before the
\* orchestrator has called execute_ffmpeg_commands; a materialization that
\* raises returns no command.
C26_OneCommandPerWindowNoneRun ==
    /\ Materialized =>
          /\ cut.plan.clips[1] = "list"
          /\ Len(cut.plan.commands) = Len(cut.plan.clips[2])
          /\ \A n \in 1..Len(cut.plan.commands) :
                cut.plan.commands[n] =
                    CommandText(FfmpegPath(cut.in.env), cut.in.media.path,
                                cut.plan.windows[n].start_time,
                                cut.plan.windows[n].end_time,
                                OutputFile(OutputFolder(cut.in.media.path),
                                           DictGet(cut.plan.clips[2][n][2], TitleKey)[2],
                                           cut.in.media.path))
          /\ cut.plan.batch = JoinWith(cut.plan.commands, <<" ", "&", "&", " ">>)
    /\ cut.plan.error # "none" => cut.plan.commands = <<>> /\ cut.ran = <<>>
    /\ cut.ran # <<>> =>
          \E i \in 1..Len(cut.log) : cut.log[i] = "execute_ffmpeg_commands"
    /\ cut.stage = "save_debug_info" \/ cut.kind = "adapter" => cut.ran = <<>>

\* create_media_clips has returned two commands for two clips of different
\* names and execute_ffmpeg_commands has not been called.
C26_Witness ==
    /\ Materialized
    /\ cut.stage = "save_debug_info"
    /\ Len(cut.plan.commands) = 2
    /\ cut.plan.windows[1].name # cut.plan.windows[2].name
    /\ cut.plan.commands[1] # cut.plan.commands[2]
    /\ cut.ran = <<>>

\* C27: execute_ffmpeg_commands runs the commands of the batch one at a time
\* in the order of the batch; only the command run last can have failed,
\* and after a failure no further command is run, the archive is not made,
\* the server's status is the error and the cli ends with the exception.
\* A status of completed means that every command was run and none failed.
C27_FailureAbortsBatch ==
    /\ Len(cut.ran) <= Len(cut.pieces)
    /\ \A i \in 1..(Len(cut.ran) - 1) : cut.ran[i] = "ok"
    /\ cut.pieces # <<>> /\ FindText(cut.in.media.path, 1, <<"&", "&">>) > Len(cut.in.media.path)
          => cut.pieces = cut.plan.commands
    /\ (\E i \in 1..Len(cut.ran) : cut.ran[i] = "failed") =>
          /\ cut.stage = "done"
          /\ \A i \in 1..Len(cut.log) : cut.log[i] # "create_zip_of_processed_files"
          /\ cut.kind = "server" => processing_status.status = "error"
          /\ cut.kind = "cli" => cut.raised # "none"
    /\ processing_status.status = "completed" =>
          /\ Len(cut.ran) = Len(cut.pieces)
          /\ \A i \in 1..Len(cut.ran) : cut.ran[i] = "ok"

\* The first of two commands has failed in a run of the server.
C27_Witness ==
    /\ cut.kind = "server"
    /\ Len(cut.pieces) = 2
    /\ cut.ran = <<"failed">>
    /\ cut.stage = "done"
    /\ processing_status.status = "error"

----------------------------------------------------------------------------
(* The transcription result *)

\* The number is a float: json.loads makes a float of a literal with a
\* fraction and an int of one without.
IsFloat(value) ==
    value[1] = "num" /\ \E n \in 1..Len(value[2]) : value[2][n] = "."

\* The segment is a canonical TranscriptSegment.
Canonical(segment) ==
    /\ segment[1] = "dict"
    /\ \A key \in {StartKey, EndKey, TextKey} : HasKey(segment[2], key)
    /\ IsFloat(DictGet(segment[2], StartKey))
    /\ IsFloat(DictGet(segment[2], EndKey))
    /\ 0 <= Millis(DictGet(segment[2], StartKey)[2])
    /\ Millis(DictGet(segment[2], StartKey)[2]) <= Millis(DictGet(segment[2], EndKey)[2])
    /\ DictGet(segment[2], TextKey)[1] = "str"
    /\ DictGet(segment[2], TextKey)[2] # <<>>
    /\ Strip(DictGet(segment[2], TextKey)[2], PythonWhitespace)
          = DictGet(segment[2], TextKey)[2]

\* C28 (as the specification states it): every segment a
\* get_transcription_result returns is a canonical TranscriptSegment, with
\* float times 0 <= start <= end and a trimmed text that is not empty, and
\* the segments are as many as the provider's.
C28_SegmentsCanonical ==
    seg.adapter # "none" /\ seg.res.outcome = "returned" =>
        /\ seg.res.value[1] = "list"
        /\ \A n \in 1..Len(seg.res.value[2]) : Canonical(seg.res.value[2][n])
        /\ HasKey(seg.output[2], SegmentsKey) =>
              Len(seg.res.value[2]) = Len(DictGet(seg.output[2], SegmentsKey)[2])

----------------------------------------------------------------------------
(* The status cell *)

\* Every status written so far, by any run.
Written == UNION {{writes[r][i] : i \in 1..Len(writes[r])} : r \in Runs}

\* C29: a status query never sees a torn value.  Every step that writes
\* leaves in the cell the status written last in that step, a step that
\* writes nothing leaves the cell alone, and a query returns the idle
\* default when nothing has been written and otherwise the triple the cell
\* holds, which is one of the triples written.
C29_NoTornRead ==
    [][/\ (\E r \in Runs : writes'[r] # writes[r]) =>
              \E r \in Runs : /\ writes'[r] # writes[r]
                              /\ processing_status' = writes'[r][Len(writes'[r])]
       /\ (\A r \in Runs : writes'[r] = writes[r]) =>
              processing_status' = processing_status
       /\ obs'.asked /\ ~obs.asked =>
              /\ Written = {} => obs'.value = St("idle", 0, "")
              /\ Written # {} => /\ obs'.value = processing_status
                                 /\ obs'.value \in Written
              /\ processing_status' = processing_status]_vars

\* A query is answered while a run of process_media awaits a stage and
\* another has ended.
C29_Witness ==
    /\ obs.asked
    /\ obs.value.status = "processing"
    /\ obs.value.progress > 0
    /\ \E r \in Runs : pc[r] = "running"
    /\ \E r \in Runs : pc[r] = "done"

\* C30 (as the specification states it): at most one run of process_media
\* is in flight; an upload does not start a second run while one has not
\* ended.
C30_OneJobInFlight ==
    Cardinality({r \in Runs : kind[r] = "server" /\ pc[r] \in {"queued", "running"}}) <= 1

----------------------------------------------------------------------------
(* The run and its transcription *)

\* Run r has got past the poll: get_transcription_result has returned or
\* raised.
PastPoll(r) ==
    \E i \in 1..Len(events[r]) :
        events[r][i][1] = "ret" /\ events[r][i][2] = "get_transcription_result"

\* C31: the poll has no maximum wait.  While the provider has reported no
\* terminal status and no request has failed, the poll is in its loop, the
\* run awaits get_transcription_result, the status is the 'processing' that
\* was written before the poll, no result and no archive exist and the media
\* file has not been removed; the run gets past the poll only after a
\* terminal status or a failed request.
C31_NoMaximumWait ==
    \A r \in Runs :
        /\ Awaits(r, "get_transcription_result") =>
              /\ processing_status = St("processing", 30, "Starting transcription")
              /\ result[r] = "none"
              /\ zip_file_path = 0
              /\ <<r, "media">> \in fs
        /\ Awaits(r, "get_transcription_result")
           /\ poll.last \notin TerminalStatuses /\ poll.error # "transport"
              => poll.state \in {"polling", "sleeping"}
        /\ PastPoll(r) \/ (kind[r] = "server" /\ pc[r] = "done" /\ poll.queries > 0)
              => poll.last \in TerminalStatuses \/ poll.error = "transport"

\* The provider has answered MaxPolls queries with 'processing' and the run
\* still awaits the poll.
C31_Witness ==
    /\ Awaits(1, "get_transcription_result")
    /\ poll.queries = MaxPolls
    /\ poll.last = "processing"
    /\ poll.state = "sleeping"
    /\ processing_status.status = "processing"

----------------------------------------------------------------------------
(* The exporters: selection *)

\* The exporter of each format get_exporter documents.
ExporterOf(name) ==
    CASE name = <<"p", "d", "f">> -> "PDFExporter"
      [] name \in {<<"d", "o", "c", "x">>, <<"d", "o", "c">>} -> "DocxExporter"
      [] name \in {<<"m", "a", "r", "k", "d", "o", "w", "n">>, <<"m", "d">>} -> "MarkdownExporter"
      [] OTHER -> "none"

\* C32 (as the docstring states it): get_exporter raises ValueError for a
\* format other than pdf, docx, doc, markdown and md, and returns the
\* exporter of the format otherwise.
C32_InvalidFormatRaises ==
    ex.op = "get_exporter" =>
        IF ExporterOf(format_lower(ex.format)) = "none"
        THEN ex.res.raised /\ ex.res.error = "ValueError"
        ELSE ~ex.res.raised /\ ex.res.exporter = ExporterOf(format_lower(ex.format))

----------------------------------------------------------------------------
(* The status cell: form of the values *)

\* The progress values a run writes with status 'processing', in order: the
\* one of upload_file, then those of process_media.
ProcessingProgress == <<0, 0, 10, 20, 30, 40, 60, 80, 90, 95, 98>>

\* The progress values of the statuses in ws that have status 'processing'.
ProgressOf(ws) ==
    LET kept == SelectSeq(ws, LAMBDA w : w.status = "processing")
    IN [n \in 1..Len(kept) |-> kept[n].progress]

\* C33: the job status is well formed.  A query made before any run returns
\* ('idle', 0, ''); every status written or returned has a progress in
\* 0..100; 'completed' goes with progress 100 and 'error' with progress 0;
\* in one run the progress values written with 'processing' are, in order,
\* a prefix of 0, 0, 10, 20, 30, 40, 60, 80, 90, 95, 98, hence never
\* decrease; and 100 is written only as the last status of a run in which
\* every stage succeeded.
C33_StatusWellFormed ==
    /\ obs.asked /\ Written = {} => obs.value = St("idle", 0, "")
    /\ \A w \in Written \cup (IF obs.asked THEN {obs.value} ELSE {}) :
          /\ w.status \in {"idle", "processing", "completed", "error"}
          /\ w.progress \in 0..100
          /\ w.status = "completed" <=> w.progress = 100
          /\ w.status = "error" => w.progress = 0
          /\ w.status = "idle" => w.progress = 0 /\ Written = {}
    /\ \A r \in Runs :
          /\ Len(ProgressOf(writes[r])) <= Len(ProcessingProgress)
          /\ ProgressOf(writes[r]) =
                SubSeq(ProcessingProgress, 1, Len(ProgressOf(writes[r])))
          /\ \A i \in 1..Len(writes[r]) :
                writes[r][i].progress = 100 =>
                    /\ i = Len(writes[r])
                    /\ result[r] = "ok"
                    /\ ProgressOf(writes[r]) = ProcessingProgress

\* A query is answered after one run has written every progress up to 100
\* and another has ended in 'error'.
C33_Witness ==
    /\ obs.asked
    /\ \E r \in Runs : result[r] = "ok" /\ Len(writes[r]) = 12
    /\ \E r \in Runs : /\ result[r] \notin {"none", "ok"}
                       /\ writes[r][Len(writes[r])].status = "error"
                       /\ Len(writes[r]) > 3

----------------------------------------------------------------------------
(* The download endpoint and the latest run *)

\* The runs POST /upload has accepted.
Uploaded == {r \in Runs : kind[r] = "server"}

\* The most recently accepted upload; runs are numbered in starting order.
Latest == CHOOSE r \in Uploaded : \A q \in Uploaded : q <= r

\* The run's last write of the status cell is 'completed'.
Completed(r) ==
    /\ writes[r] # <<>>
    /\ writes[r][Len(writes[r])].status = "completed"

\* C34: /download never serves an archive of an earlier run.  Whenever a
\* download is answered while an upload has been accepted, it answers 'not
\* available' unless the latest run has written 'completed', and an archive
\* it serves is the archive of the latest run.
C34_NeverServesEarlierRun ==
    [][lastDownload' # lastDownload /\ Uploaded # {} =>
          /\ ~Completed(Latest) => lastDownload' = 0
          /\ lastDownload' > 0 => lastDownload' = Latest]_vars

\* The run has written neither 'completed' nor 'error' yet.
InFlight(r) ==
    \A i \in 1..Len(writes[r]) : writes[r][i].status = "processing"

\* C35: a status query reflects the latest accepted upload.  A query made
\* after an upload was accepted, before that run has written 'completed' or
\* 'error', returns the status 'processing'.
C35_QueryReflectsLatest ==
    obs.asked /\ Uploaded # {} /\ InFlight(Latest) =>
        obs.value.status = "processing"

----------------------------------------------------------------------------
(* The clip materialization: destinations and batches *)

\* C36 (as the specification states it): two different clips of one list
\* are written to different output files.
C36_DistinctDestinations ==
    Materialized =>
        \A n, m \in 1..Len(cut.plan.windows) :
            cut.plan.clips[2][n] # cut.plan.clips[2][m] =>
                OutputFile(OutputFolder(cut.in.media.path),
                           cut.plan.windows[n].title, cut.in.media.path)
                # OutputFile(OutputFolder(cut.in.media.path),
                             cut.plan.windows[m].title, cut.in.media.path)

\* C37 (as the specification states it): the commands that
\* execute_ffmpeg_commands runs are the commands the materialization built,
\* in their order.
C37_BatchRoundTrips ==
    (\E i \in 1..Len(cut.log) : cut.log[i] = "execute_ffmpeg_commands") =>
        cut.pieces = cut.plan.commands

----------------------------------------------------------------------------
(* The two clip paths *)

\* C38 (as the specification states it): on the same replies, environment
\* and media file the legacy path and the adapter path end alike, both with
\* a result or both with an error, and two results have the same topics,
\* the same clips and the same commands.
C38_PathsAgree ==
    two.op = "both" =>
        /\ two.legacy.error = "none" <=> two.adapter.error = "none"
        /\ two.legacy.error = "none" =>
              /\ two.legacy.topics = two.adapter.topics
              /\ two.legacy.clips = two.adapter.clips
              /\ two.legacy.commands = two.adapter.commands

====
